---- MODULE Spec2Model ----
(***************************************************************************)
(* The ingestion -> extraction -> deduplication/persistence pipeline of    *)
(* the freelance parser: worker/scheduler.py (parse_and_analyze_job),      *)
(* worker/jobs/parser.py, worker/jobs/analyzer.py,                         *)
(* services/request_service.py and services/category_service.py.          *)
(*                                                                         *)
(* One orchestrator run is a sequence of steps (pc); the store holds the   *)
(* freelance_requests, parse_logs and categories tables.  Time is counted  *)
(* in whole days.                                                          *)
(***************************************************************************)
EXTENDS Integers, Sequences, FiniteSets, TLC

VARIABLES
    store,           \* freelance_requests rows
    nextId,          \* autoincrement of freelance_requests.id
    logs,            \* parse_logs rows, indexed by id
    cats,            \* categories rows, by slug
    now,             \* the clock, in days
    BATCH_SIZE,      \* Settings.BATCH_SIZE
    MESSAGES_TTL_DAYS, \* Settings.MESSAGES_TTL_DAYS
    pc,              \* position of the run in parse_and_analyze_job
    runs,            \* number of runs started
    log_id,          \* the run's parse log id
    total_chats, total_messages, total_requests,
    config,          \* the categories of the loaded configuration, in order
    ci,              \* index of the category being processed
    chat_i,          \* index of the next chat of the category (parse_category)
    all_messages,    \* parse_category's all_messages
    batches, bi,     \* analyze_all's batches and the index of the next one
    all_requests,    \* analyze_all's all_requests
    err,             \* the exception that ended the run, or NoErr
    last,            \* the last step of the run: what it did and how it went
    touched,         \* the category indices the run has read, extracted or saved
    evicts,          \* the calls of cleanup_old_requests of the run
    finishes,        \* the committed calls of finish_parse_log of the run
    delays,          \* the rate delays of the category walk under way
    runStore,        \* the rows inserted by the saves of the run, per category index
    walked,          \* per category walked in the run: its chats and its messages
    offered,         \* the hashes of the records given to save_requests in the run
    held,            \* the list of records a direct caller of save_requests holds
    given,           \* that list as the caller built it
    repeats,         \* the times held was saved since it was built or rows were evicted
    race,            \* the state of each of two concurrent calls of save_requests
    arg,             \* the argument of a function of the worker called on its own
    ret              \* and what the function returned

vars == <<store, nextId, logs, cats, now, BATCH_SIZE, MESSAGES_TTL_DAYS, pc, runs,
          log_id, total_chats, total_messages, total_requests, config, ci, chat_i,
          all_messages, batches, bi, all_requests, err, last, touched, evicts,
          finishes, delays, runStore, walked, offered, held, given, repeats, race,
          arg, ret>>

----------------------------------------------------------------------------
(* Bounds *)
MaxRuns == 2
MaxRecs == 1
MaxNow == 11
MaxList == 2
MaxRepeats == 2
MaxRowId == 3
MaxItems == 4
MaxCands == 3
MaxOffset == 4
MaxLimit == 3
MaxHist == 3

(* Program constants *)
MinTextLen == 50
LookbackDays == 7
StartDay == 10

NoErr == "none"
Absent == "absent"

----------------------------------------------------------------------------
(* Data *)
Slugs == {"web", "bots"}
ChatIds == {"c1", "c2", "c3"}

\* the configurations config/chats.yaml may hold, each in file order
Configs ==
    { << [slug |-> "web", chats |-> <<"c1", "c2">>],
         [slug |-> "bots", chats |-> <<"c3">>] >>,
      << [slug |-> "web", chats |-> <<>>] >> }

\* message texts and their lengths
Texts == {"", "s49", "a50", "b60"}
TextLen(t) ==
    CASE t = "" -> 0
      [] t = "s49" -> 49
      [] t = "a50" -> 50
      [] t = "b60" -> 60

\* the messages a source can deliver: id, text, age in days, sender is a bot
MsgA == [id |-> 1, text |-> "a50", age |-> 1, bot |-> FALSE]
MsgB == [id |-> 1, text |-> "b60", age |-> 0, bot |-> FALSE]   \* the id of MsgA
MsgC == [id |-> 2, text |-> "a50", age |-> 3, bot |-> FALSE]   \* the text of MsgA
MsgShort == [id |-> 3, text |-> "s49", age |-> 1, bot |-> FALSE]
MsgBot == [id |-> 4, text |-> "b60", age |-> 1, bot |-> TRUE]
MsgOld == [id |-> 5, text |-> "b60", age |-> 8, bot |-> FALSE]
MsgNoText == [id |-> 6, text |-> "", age |-> 1, bot |-> FALSE]
MsgEdge == [id |-> 7, text |-> "b60", age |-> 7, bot |-> FALSE]   \* at the cutoff

SeqsUpTo(S, n) == UNION { [1..k -> S] : k \in 0..n }

\* the histories each source can deliver, newest first as a rule
Histories(chat_id) ==
    CASE chat_id = "c1" -> { <<>>, <<MsgA>>, <<MsgBot, MsgA>> }
      [] chat_id = "c2" -> { <<MsgB>>, <<MsgC, MsgShort>>, <<MsgNoText, MsgOld, MsgB>> }
      [] chat_id = "c3" -> { <<>>, <<MsgA>>, <<MsgB>> }

\* source_message_id values the model reply can carry besides the ids of the batch:
\* an id of no message, and BadId for the empty list (falsy and unhashable)
UnresolvedIds == {9}
BadId == -1
AbsentDate == -1

Truthy(id) == id # 0 /\ id # BadId
Hashable(id) == id # BadId

----------------------------------------------------------------------------
(* services/request_service.py: compute_hash *)
compute_hash(text) == <<"sha256", text>>

----------------------------------------------------------------------------
(* worker/jobs/parser.py *)

\* a filter that wants more than MinTextLen characters
filter_messages_strict(messages) ==
    SelectSeq(messages, LAMBDA msg : TextLen(msg.text) > MinTextLen /\ ~msg.is_bot)

filter_messages(messages) ==
    SelectSeq(messages, LAMBDA msg : TextLen(msg.text) >= MinTextLen /\ ~msg.is_bot)

\* a loop that passes over a message older than the cutoff and reads on
RECURSIVE IterMessagesSkipsOld(_, _, _, _, _, _)
IterMessagesSkipsOld(h, i, fail_at, chat_id, cutoff_date, messages) ==
    IF i = fail_at THEN [raised |-> TRUE, messages |-> messages]
    ELSE IF i > Len(h) THEN [raised |-> FALSE, messages |-> messages]
    ELSE IF now - h[i].age < cutoff_date \/ h[i].text = ""
         THEN IterMessagesSkipsOld(h, i + 1, fail_at, chat_id, cutoff_date, messages)
    ELSE IterMessagesSkipsOld(h, i + 1, fail_at, chat_id, cutoff_date,
            Append(messages, [text |-> h[i].text,
                              message_id |-> h[i].id,
                              message_date |-> now - h[i].age,
                              chat_id |-> chat_id,
                              is_bot |-> h[i].bot,
                              category |-> Absent]))

\* the loop of parse_chat over the delivered history h from position i on;
\* fail_at = 0: get_entity raises; fail_at = k > 0: the iterator raises when
\* asked for the k-th message; messages is the local list at that point
RECURSIVE IterMessages(_, _, _, _, _, _)
IterMessages(h, i, fail_at, chat_id, cutoff_date, messages) ==
    IF i = fail_at THEN [raised |-> TRUE, messages |-> messages]
    ELSE IF i > Len(h) THEN [raised |-> FALSE, messages |-> messages]
    ELSE IF now - h[i].age < cutoff_date THEN [raised |-> FALSE, messages |-> messages]
    ELSE IF h[i].text = ""
         THEN IterMessages(h, i + 1, fail_at, chat_id, cutoff_date, messages)
    ELSE IterMessages(h, i + 1, fail_at, chat_id, cutoff_date,
            Append(messages, [text |-> h[i].text,
                              message_id |-> h[i].id,
                              message_date |-> now - h[i].age,
                              chat_id |-> chat_id,
                              is_bot |-> h[i].bot,
                              category |-> Absent]))

\* the try block of parse_chat: get_entity, then the loop
ReadMessages(chat_id, days, h, fail_at) ==
    IF fail_at = 0 THEN [raised |-> TRUE, messages |-> <<>>]
    ELSE IterMessages(h, 1, fail_at, chat_id, now - days, <<>>)

\* parse_chat returning what it had read when the source failed
parse_chat_partial(chat_id, days, h, fail_at) ==
    filter_messages(ReadMessages(chat_id, days, h, fail_at).messages)

\* the handler of lines 105-115 returns the empty list
parse_chat(chat_id, days, h, fail_at) ==
    LET r == ReadMessages(chat_id, days, h, fail_at)
    IN  IF r.raised THEN <<>> ELSE filter_messages(r.messages)

\* one iteration of parse_category's loop: the messages of one chat, tagged
TagCategory(messages, category_slug) ==
    [k \in DOMAIN messages |-> [messages[k] EXCEPT !.category = category_slug]]

----------------------------------------------------------------------------
(* worker/jobs/analyzer.py *)

Min(a, b) == IF a < b THEN a ELSE b
Ceil(n, d) == (n + d - 1) \div d

\* a split that leaves out the last, shorter batch
split_into_batches_floor(items, batch_size) ==
    [k \in 1..(Len(items) \div batch_size) |->
        SubSeq(items, (k - 1) * batch_size + 1, k * batch_size)]

\* defined for batch_size > 0; the caller raises ValueError otherwise
split_into_batches(items, batch_size) ==
    IF Len(items) = 0 THEN <<>>
    ELSE [k \in 1..Ceil(Len(items), batch_size) |->
            SubSeq(items, (k - 1) * batch_size + 1, Min(k * batch_size, Len(items)))]

\* a reply text is a sequence of tokens: the fence of three backquotes, a word, a
\* line break,
\* the text of a JSON array of records, the text of a JSON object, other text
Tok(t) == [tok |-> t, recs |-> <<>>]
ArrayTok(recs) == [tok |-> "[]", recs |-> recs]
Fence == Tok("fence")
Newline == Tok("nl")

\* str.strip(): the white space at both ends is removed
RECURSIVE strip(_)
strip(text) ==
    IF Len(text) = 0 THEN text
    ELSE IF Head(text) = Newline THEN strip(Tail(text))
    ELSE IF text[Len(text)] = Newline THEN strip(SubSeq(text, 1, Len(text) - 1))
    ELSE text

\* json.loads: the value of a text that is one JSON value, raised otherwise
json_loads(text) ==
    IF Len(text) = 1 /\ text[1].tok = "[]"
    THEN [raised |-> FALSE, is_list |-> TRUE, value |-> text[1].recs]
    ELSE IF Len(text) = 1 /\ text[1].tok = "{}"
    THEN [raised |-> FALSE, is_list |-> FALSE, value |-> <<>>]
    ELSE [raised |-> TRUE, is_list |-> FALSE, value |-> <<>>]

\* lines 80-83: the opening fence, with the word json or without, is removed
DropOpen(text) ==
    IF Len(text) >= 2 /\ text[1] = Fence /\ text[2] = Tok("json")
    THEN SubSeq(text, 3, Len(text))
    ELSE IF Len(text) >= 1 /\ text[1] = Fence
    THEN SubSeq(text, 2, Len(text))
    ELSE text

\* lines 85-86: the closing fence is removed
DropClose(text) ==
    IF Len(text) >= 1 /\ text[Len(text)] = Fence
    THEN SubSeq(text, 1, Len(text) - 1)
    ELSE text

\* lines 77-88: each step works on the value the step before it left in text
Unfence(response_text) ==
    LET stripped == { strip(text) : text \in {response_text} }
        opened == { DropOpen(text) : text \in stripped }
        closed == { DropClose(text) : text \in opened }
    IN  CHOOSE text \in { strip(t) : t \in closed } : TRUE

\* a parse that wraps a decoded value that is not a list into a list
parse_gemini_response_wraps(response_text) ==
    LET result == json_loads(Unfence(response_text))
    IN  IF result.raised THEN [raised |-> TRUE, value |-> <<>>]
        ELSE IF ~result.is_list
        THEN [raised |-> FALSE,
              value |-> <<[source_message_id |-> 9, source_chat |-> Absent,
                           message_date |-> AbsentDate, category |-> Absent,
                           message_text |-> Absent]>>]
        ELSE [raised |-> FALSE, value |-> result.value]

\* the list parse_gemini_response returns, or raised for json.JSONDecodeError
parse_gemini_response(response_text) ==
    LET result == json_loads(Unfence(response_text))
    IN  IF result.raised THEN [raised |-> TRUE, value |-> <<>>]
        ELSE IF ~result.is_list THEN [raised |-> FALSE, value |-> <<>>]
        ELSE [raised |-> FALSE, value |-> result.value]

\* the text of the model's reply: kind "api_error" (the call raises), "empty"
\* (no text), "not_json" (other text), "not_array" (a JSON object), "array" (the
\* records recs as a JSON array in a json fence)
ResponseText(reply) ==
    CASE reply.kind = "array" ->
            <<Fence, Tok("json"), Newline, ArrayTok(reply.recs), Newline, Fence>>
      [] reply.kind = "not_array" -> <<Tok("{}")>>
      [] reply.kind = "not_json" -> <<Tok("text")>>
      [] OTHER -> <<>>

\* message_lookup = {msg["message_id"]: msg for msg in messages}: the last wins
HasMessage(messages, id) == \E k \in DOMAIN messages : messages[k].message_id = id
LookupMessage(messages, id) ==
    LET k == CHOOSE k \in DOMAIN messages :
                /\ messages[k].message_id = id
                /\ \A j \in DOMAIN messages : messages[j].message_id = id => j <= k
    IN  messages[k]

\* an attach that copies the metadata but not the text
attach_metadata_no_text(requests, messages) ==
    [k \in DOMAIN requests |->
        LET req == requests[k]
            msg_id == req.source_message_id
        IN  IF Truthy(msg_id) /\ HasMessage(messages, msg_id)
            THEN LET original == LookupMessage(messages, msg_id)
                 IN  [req EXCEPT !.source_chat = original.chat_id,
                                 !.message_date = original.message_date,
                                 !.category = original.category]
            ELSE req]

\* an attach that returns only the records it resolved
attach_metadata_drops(requests, messages) ==
    LET all == attach_metadata_no_text(requests, messages)
        resolved == SelectSeq(all, LAMBDA req : req.source_chat # Absent)
    IN  [k \in DOMAIN resolved |->
            [resolved[k] EXCEPT !.message_text =
                LookupMessage(messages, resolved[k].source_message_id).text]]

attach_metadata(requests, messages) ==
    [k \in DOMAIN requests |->
        LET req == requests[k]
            msg_id == req.source_message_id
        IN  IF Truthy(msg_id) /\ HasMessage(messages, msg_id)
            THEN LET original == LookupMessage(messages, msg_id)
                 IN  [req EXCEPT !.source_chat = original.chat_id,
                                 !.message_date = original.message_date,
                                 !.category = original.category,
                                 !.message_text = original.text]
            ELSE req]

analyze_batch(messages, reply) ==
    IF Len(messages) = 0 THEN <<>>
    ELSE IF reply.kind \in {"api_error", "empty"} THEN <<>>
    ELSE LET requests == parse_gemini_response(ResponseText(reply))
         IN  IF requests.raised THEN <<>>
             ELSE attach_metadata(requests.value, messages)

\* a record as json.loads returns it: only the model's fields are present
RawRecord(id) ==
    [source_message_id |-> id, source_chat |-> Absent, message_date |-> AbsentDate,
     category |-> Absent, message_text |-> Absent]

BatchIds(batch) == { batch[k].message_id : k \in DOMAIN batch }

Replies(batch) ==
    { [kind |-> k, recs |-> <<>>] : k \in {"api_error", "empty", "not_json", "not_array"} }
    \cup
    { [kind |-> "array", recs |-> [k \in DOMAIN ids |-> RawRecord(ids[k])]] :
        ids \in SeqsUpTo(BatchIds(batch) \cup UnresolvedIds \cup {BadId}, MaxRecs) }

----------------------------------------------------------------------------
(* services/request_service.py *)

\* what the existence check of save_requests sees: the committed rows and the
\* rows added earlier in the same call (the session flushes before a query)
SessionSees(rows, pending) == rows \cup pending

NewRequest(req_data, id, text_hash) ==
    [id |-> id,
     category |-> IF req_data.category = Absent THEN "" ELSE req_data.category,
     source_chat |-> IF req_data.source_chat = Absent THEN "" ELSE req_data.source_chat,
     source_message_id |-> req_data.source_message_id,
     message_date |-> IF req_data.message_date = AbsentDate THEN now
                      ELSE req_data.message_date,
     message_text_hash |-> text_hash,
     is_active |-> TRUE]

\* the text save_requests hashes: req_data.pop("message_text", "")
MessageTextOf(req_data) ==
    IF req_data.message_text = Absent THEN "" ELSE req_data.message_text

\* the loop of save_requests from request i on without its existence check
RECURSIVE SaveLoopNoCheck(_, _, _, _, _, _)
SaveLoopNoCheck(rows, requests, i, pending, id, saved_count) ==
    IF i > Len(requests) THEN [rows |-> pending, saved_count |-> saved_count]
    ELSE SaveLoopNoCheck(rows, requests, i + 1,
            pending \cup {NewRequest(requests[i], id,
                                     compute_hash(MessageTextOf(requests[i])))},
            id + 1, saved_count + 1)

\* the loop of save_requests from request i on, a later record replacing the
\* pending row of the same hash
RECURSIVE SaveLoopLastWins(_, _, _, _, _, _)
SaveLoopLastWins(rows, requests, i, pending, id, saved_count) ==
    IF i > Len(requests) THEN [rows |-> pending, saved_count |-> saved_count]
    ELSE LET text_hash == compute_hash(MessageTextOf(requests[i]))
             same == { r \in pending : r.message_text_hash = text_hash }
         IN  IF \E r \in rows : r.message_text_hash = text_hash
             THEN SaveLoopLastWins(rows, requests, i + 1, pending, id, saved_count)
             ELSE SaveLoopLastWins(rows, requests, i + 1,
                     (pending \ same) \cup {NewRequest(requests[i], id, text_hash)},
                     id + 1, IF same = {} THEN saved_count + 1 ELSE saved_count)

\* the loop of save_requests from request i on; pending are the rows added so
\* far, id the next value of the autoincrement
RECURSIVE SaveLoop(_, _, _, _, _, _)
SaveLoop(rows, requests, i, pending, id, saved_count) ==
    IF i > Len(requests) THEN [rows |-> pending, saved_count |-> saved_count]
    ELSE LET req_data == requests[i]
             text_hash == compute_hash(MessageTextOf(req_data))
         IN  IF \E r \in SessionSees(rows, pending) : r.message_text_hash = text_hash
             THEN SaveLoop(rows, requests, i + 1, pending, id, saved_count)
             ELSE SaveLoop(rows, requests, i + 1,
                           pending \cup {NewRequest(req_data, id, text_hash)},
                           id + 1, saved_count + 1)

\* save_requests: the rows it inserts into rows and the count it returns
save_requests(rows, requests, id) == SaveLoop(rows, requests, 1, {}, id, 0)

\* what save_requests leaves of the caller's records: message_text is popped
PopMessageText(requests) ==
    [k \in DOMAIN requests |-> [requests[k] EXCEPT !.message_text = Absent]]

\* a cleanup that also deletes the rows dated at the cutoff
cleanup_old_requests_inclusive(rows, days) ==
    LET cutoff_date == now - days
    IN  { r \in rows : r.message_date <= cutoff_date }

\* the rows cleanup_old_requests deletes
cleanup_old_requests(rows, days) ==
    LET cutoff_date == now - days
    IN  { r \in rows : r.message_date < cutoff_date }

create_parse_log ==
    [status |-> "running", finished_at |-> AbsentDate, chats_parsed |-> 0,
     messages_found |-> 0, requests_extracted |-> 0, error_message |-> NoErr]

finish_parse_log(table, id, status, chats_parsed, messages_found, requests_extracted, error_message) ==
    IF id \in DOMAIN table
    THEN [table EXCEPT ![id] = [status |-> status, finished_at |-> now,
                                chats_parsed |-> chats_parsed,
                                messages_found |-> messages_found,
                                requests_extracted |-> requests_extracted,
                                error_message |-> error_message]]
    ELSE table

----------------------------------------------------------------------------
(* services/category_service.py *)

NoCategory == [exists |-> FALSE, is_active |-> FALSE, chats_count |-> 0,
               last_parsed_at |-> AbsentDate]

ConfigSlugs(cfg) == { cfg[k].slug : k \in DOMAIN cfg }
ConfigChats(cfg, slug) == (CHOOSE k \in DOMAIN cfg : cfg[k].slug = slug)

\* a sync that deletes the categories the configuration does not name
sync_from_config_deletes(table, cfg) ==
    [slug \in Slugs |->
        IF slug \in ConfigSlugs(cfg)
        THEN [exists |-> TRUE, is_active |-> TRUE,
              chats_count |-> Len(cfg[ConfigChats(cfg, slug)].chats),
              last_parsed_at |-> table[slug].last_parsed_at]
        ELSE NoCategory]

\* lines 54-101
sync_from_config(table, cfg) ==
    [slug \in Slugs |->
        IF slug \in ConfigSlugs(cfg)
        THEN [exists |-> TRUE, is_active |-> TRUE,
              chats_count |-> Len(cfg[ConfigChats(cfg, slug)].chats),
              last_parsed_at |-> table[slug].last_parsed_at]
        ELSE IF table[slug].exists
             THEN [table[slug] EXCEPT !.is_active = FALSE]
             ELSE table[slug]]

update_last_parsed(table, slug) ==
    [s \in Slugs |->
        IF s = slug /\ table[s].exists
        THEN [table[s] EXCEPT !.last_parsed_at = now]
        ELSE table[s]]

----------------------------------------------------------------------------
(* worker/scheduler.py: parse_and_analyze_job *)

BatchSizes == {0, 1, 2}
TtlDays == {2, 30}

ConfigErrors == {"Configuration file not found: config/chats.yaml",
                 "Configuration must contain 'categories' key"}
ClientError == "Cannot connect to Telegram"
BatchSizeError == "batch_size must be positive"
UnhashableError == "unhashable type: 'list'"
StoreError == "store unavailable"

\* the record of one step of the run: the operation, the index of the category,
\* the index of the chat or batch, a count, and how the step went
Event(op, cat, n, m, tag) == [op |-> op, cat |-> cat, n |-> n, m |-> m, tag |-> tag]
NoEvent == Event("none", 0, 0, 0, "ok")
ghostVars == <<last, touched, evicts, finishes, delays>>

\* two sessions on one database, each in a call of save_requests
Procs == {1, 2}
IdleCall == [at |-> "idle", requests |-> <<>>, i |-> 0, pending |-> {}, saved_count |-> 0]

InitTables ==
    /\ store = {}
    /\ nextId = 1
    /\ logs = <<>>
    /\ cats = [slug \in Slugs |-> NoCategory]
    /\ now = StartDay
    /\ BATCH_SIZE \in BatchSizes
    /\ MESSAGES_TTL_DAYS \in TtlDays
    /\ runs = 0
    /\ log_id = 0
    /\ total_chats = 0
    /\ total_messages = 0
    /\ total_requests = 0
    /\ config = <<>>
    /\ ci = 0
    /\ chat_i = 0
    /\ all_messages = <<>>
    /\ batches = <<>>
    /\ bi = 0
    /\ all_requests = <<>>
    /\ err = NoErr
    /\ last = NoEvent
    /\ touched = {}
    /\ evicts = 0
    /\ finishes = 0
    /\ delays = 0
    /\ runStore = {}
    /\ walked = {}
    /\ offered = {}
    /\ held = <<>>
    /\ given = <<>>
    /\ repeats = 0
    /\ race = [p \in Procs |-> IdleCall]
    /\ arg = <<>>
    /\ ret = <<>>

\* the worker: the job is triggered by the scheduler
Init ==
    /\ InitTables
    /\ pc = "idle"

\* the settings, and the records of a direct caller: no step of a run changes them
settingsVars == <<BATCH_SIZE, MESSAGES_TTL_DAYS, held, given, repeats, race, arg, ret>>
tableVars == <<store, nextId, logs, cats>>
totalVars == <<total_chats, total_messages, total_requests>>
walkVars == <<chat_i, all_messages>>
analyzeVars == <<batches, bi, all_requests>>

\* the time between two runs
Tick ==
    /\ pc = "done"
    /\ now < MaxNow
    /\ now' = now + 1
    /\ UNCHANGED <<tableVars, settingsVars, pc, runs, log_id, totalVars, config, ci,
                   walkVars, analyzeVars, err, ghostVars, runStore, walked, offered>>

\* lines 47-49 and the state of a run that has not done anything yet
EnterRun ==
    /\ runs' = runs + 1
    /\ total_chats' = 0
    /\ total_messages' = 0
    /\ total_requests' = 0
    /\ config' = <<>>
    /\ ci' = 0
    /\ chat_i' = 0
    /\ all_messages' = <<>>
    /\ batches' = <<>>
    /\ bi' = 0
    /\ all_requests' = <<>>
    /\ touched' = {}
    /\ evicts' = 0
    /\ finishes' = 0
    /\ delays' = 0
    /\ runStore' = {}
    /\ walked' = {}
    /\ offered' = {}

\* lines 39-49: the parse log is created, the totals are zero
StartRun ==
    /\ pc \in {"idle", "done"}
    /\ runs < MaxRuns
    /\ EnterRun
    /\ logs' = Append(logs, create_parse_log)
    /\ log_id' = Len(logs) + 1
    /\ err' = NoErr
    /\ last' = Event("create", 0, 0, 0, "ok")
    /\ pc' = "load_config"
    /\ UNCHANGED <<store, nextId, cats, now, settingsVars>>

\* the locals of parse_category and analyze_all are gone once the calls are over
DropLocals ==
    /\ chat_i' = 0
    /\ all_messages' = <<>>
    /\ batches' = <<>>
    /\ bi' = 0
    /\ all_requests' = <<>>

\* an exception that is logged and passed over
RaiseAndGoOn(e) ==
    /\ err' = e
    /\ pc' = "cleanup"
    /\ DropLocals

\* an exception inside the try block: control goes to the handler of line 121
Raise(e) ==
    /\ err' = e
    /\ pc' = "except"
    /\ DropLocals

\* a configuration error answered with the empty configuration
LoadConfigSwallows ==
    /\ pc = "load_config"
    /\ \/ \E cfg \in Configs :
             /\ config' = cfg
             /\ err' = err
       \/ \E e \in ConfigErrors :
             /\ config' = <<>>
             /\ err' = e
    /\ pc' = "sync"
    /\ last' = Event("config", 0, 0, 0, "ok")
    /\ UNCHANGED <<tableVars, now, settingsVars, runs, log_id, totalVars, ci,
                   walkVars, analyzeVars, touched, evicts, finishes, delays, runStore, walked, offered>>

\* lines 53-54
LoadConfig ==
    /\ pc = "load_config"
    /\ \/ \E cfg \in Configs :
             /\ config' = cfg
             /\ pc' = "sync"
             /\ last' = Event("config", 0, 0, 0, "ok")
             /\ UNCHANGED <<err, walkVars, analyzeVars>>
       \/ \E e \in ConfigErrors :
             /\ Raise(e)
             /\ last' = Event("config", 0, 0, 0, "raised")
             /\ config' = config
    /\ UNCHANGED <<tableVars, now, settingsVars, runs, log_id, totalVars, ci,
                   touched, evicts, finishes, delays, runStore, walked, offered>>

\* line 57
SyncCategories ==
    /\ pc = "sync"
    /\ cats' = sync_from_config(cats, config)
    /\ last' = Event("sync", 0, 0, 0, "ok")
    /\ pc' = "client"
    /\ UNCHANGED <<store, nextId, logs, now, settingsVars, runs, log_id, totalVars,
                   config, ci, walkVars, analyzeVars, err, touched, evicts, finishes,
                   delays, runStore, walked, offered>>

\* lines 60-62
GetClient ==
    /\ pc = "client"
    /\ \/ /\ pc' = "categories"
          /\ ci' = 1
          /\ last' = Event("client", 0, 0, 0, "ok")
          /\ UNCHANGED <<err, walkVars, analyzeVars>>
       \/ /\ Raise(ClientError)
          /\ last' = Event("client", 0, 0, 0, "raised")
          /\ ci' = ci
    /\ UNCHANGED <<tableVars, now, settingsVars, runs, log_id, totalVars, config,
                   touched, evicts, finishes, delays, runStore, walked, offered>>

\* the head of the loop leaving the loop at a category without chats
NextCategoryBreaks ==
    /\ pc = "categories"
    /\ IF ci > Len(config) \/ Len(config[ci].chats) = 0
       THEN /\ pc' = "cleanup"
            /\ UNCHANGED <<ci, walkVars, delays>>
       ELSE /\ pc' = "parse"
            /\ chat_i' = 1
            /\ all_messages' = <<>>
            /\ delays' = 0
            /\ ci' = ci
    /\ last' = Event("category", ci, 0, 0, "ok")
    /\ UNCHANGED <<tableVars, now, settingsVars, runs, log_id, totalVars, config,
                   analyzeVars, err, touched, evicts, finishes, runStore, walked, offered>>

\* lines 65-68 and 101: the head of the loop over the categories
NextCategory ==
    /\ pc = "categories"
    /\ IF ci > Len(config)
       THEN /\ pc' = "cleanup"
            /\ UNCHANGED <<ci, walkVars, delays>>
       ELSE IF Len(config[ci].chats) = 0
       THEN /\ ci' = ci + 1
            /\ UNCHANGED <<pc, walkVars, delays>>
       ELSE /\ pc' = "parse"
            /\ chat_i' = 1
            /\ all_messages' = <<>>
            /\ delays' = 0
            /\ ci' = ci
    /\ last' = Event("category", ci, 0, 0, "ok")
    /\ UNCHANGED <<tableVars, now, settingsVars, runs, log_id, totalVars, config,
                   analyzeVars, err, touched, evicts, finishes, runStore, walked, offered>>

\* an iteration that sleeps before every chat, the first one too
ParseChatDelaysFirst ==
    /\ pc = "parse"
    /\ chat_i <= Len(config[ci].chats)
    /\ \E h \in Histories(config[ci].chats[chat_i]) : \E fail_at \in 0..(Len(h) + 2) :
         LET chat_id == config[ci].chats[chat_i]
             messages == TagCategory(parse_chat(chat_id, LookbackDays, h, fail_at),
                                     config[ci].slug)
             r == ReadMessages(chat_id, LookbackDays, h, fail_at)
         IN  /\ all_messages' = all_messages \o messages
             /\ last' = Event("read", ci, chat_i, Len(messages),
                              IF ~r.raised THEN "ok"
                              ELSE IF Len(r.messages) > 0 THEN "raised_partway"
                              ELSE "raised")
    /\ delays' = delays + 1
    /\ touched' = touched \cup {ci}
    /\ chat_i' = chat_i + 1
    /\ UNCHANGED <<tableVars, now, settingsVars, pc, runs, log_id, totalVars, config,
                   ci, analyzeVars, err, evicts, finishes, runStore, walked, offered>>

\* parser.py lines 139-150: one iteration of parse_category's loop
ParseChat ==
    /\ pc = "parse"
    /\ chat_i <= Len(config[ci].chats)
    /\ \E h \in Histories(config[ci].chats[chat_i]) : \E fail_at \in 0..(Len(h) + 2) :
         LET chat_id == config[ci].chats[chat_i]
             messages == TagCategory(parse_chat(chat_id, LookbackDays, h, fail_at),
                                     config[ci].slug)
             r == ReadMessages(chat_id, LookbackDays, h, fail_at)
         IN  /\ all_messages' = all_messages \o messages
             /\ last' = Event("read", ci, chat_i, Len(messages),
                              IF ~r.raised THEN "ok"
                              ELSE IF Len(r.messages) > 0 THEN "raised_partway"
                              ELSE "raised")
    /\ delays' = IF chat_i > 1 THEN delays + 1 ELSE delays
    /\ touched' = touched \cup {ci}
    /\ chat_i' = chat_i + 1
    /\ UNCHANGED <<tableVars, now, settingsVars, pc, runs, log_id, totalVars, config,
                   ci, analyzeVars, err, evicts, finishes, runStore, walked, offered>>

\* the totals assigned from the last category instead of added up
AfterParseOverwrites ==
    /\ pc = "parse"
    /\ chat_i > Len(config[ci].chats)
    /\ total_chats' = Len(config[ci].chats)
    /\ total_messages' = Len(all_messages)
    /\ IF Len(all_messages) = 0
       THEN /\ ci' = ci + 1
            /\ pc' = "categories"
            /\ DropLocals
            /\ err' = err
            /\ last' = Event("walked", ci, 0, 0, "ok")
       ELSE IF BATCH_SIZE <= 0
       THEN /\ Raise(BatchSizeError)
            /\ last' = Event("split", ci, 0, 0, "raised")
            /\ ci' = ci
       ELSE /\ batches' = split_into_batches(all_messages, BATCH_SIZE)
            /\ bi' = 1
            /\ all_requests' = <<>>
            /\ pc' = "analyze"
            /\ last' = Event("walked", ci, 0, Len(all_messages), "ok")
            /\ UNCHANGED <<ci, err, walkVars>>
    /\ walked' = walked \cup {[cat |-> ci, chats |-> Len(config[ci].chats),
                                messages |-> Len(all_messages)]}
    /\ UNCHANGED <<tableVars, now, settingsVars, runs, log_id, total_requests, config,
                   touched, evicts, finishes, delays, runStore, offered>>

\* lines 73-83 after parse_category returned, and analyzer.py lines 210-218
AfterParse ==
    /\ pc = "parse"
    /\ chat_i > Len(config[ci].chats)
    /\ total_chats' = total_chats + Len(config[ci].chats)
    /\ total_messages' = total_messages + Len(all_messages)
    /\ IF Len(all_messages) = 0
       THEN /\ ci' = ci + 1
            /\ pc' = "categories"
            /\ DropLocals
            /\ err' = err
            /\ last' = Event("walked", ci, 0, 0, "ok")
       ELSE IF BATCH_SIZE <= 0
       THEN /\ Raise(BatchSizeError)
            /\ last' = Event("split", ci, 0, 0, "raised")
            /\ ci' = ci
       ELSE /\ batches' = split_into_batches(all_messages, BATCH_SIZE)
            /\ bi' = 1
            /\ all_requests' = <<>>
            /\ pc' = "analyze"
            /\ last' = Event("walked", ci, 0, Len(all_messages), "ok")
            /\ UNCHANGED <<ci, err, walkVars>>
    /\ walked' = walked \cup {[cat |-> ci, chats |-> Len(config[ci].chats),
                                messages |-> Len(all_messages)]}
    /\ UNCHANGED <<tableVars, now, settingsVars, runs, log_id, total_requests, config,
                   touched, evicts, finishes, delays, runStore, offered>>

\* analyzer.py lines 219-222: one iteration of analyze_all's loop
AnalyzeBatch ==
    /\ pc = "analyze"
    /\ bi <= Len(batches)
    /\ \E reply \in Replies(batches[bi]) :
         LET requests == analyze_batch(batches[bi], reply)
         IN  /\ all_requests' = all_requests \o requests
             /\ last' = Event("extract", ci, bi, Len(requests), reply.kind)
    /\ bi' = bi + 1
    /\ UNCHANGED <<tableVars, now, settingsVars, pc, runs, log_id, totalVars, config,
                   ci, walkVars, batches, err, touched, evicts, finishes, delays,
                   runStore, walked, offered>>

\* a lookup that gives a record of an unknown id the text of the first message
AddMessageTextOfFirst(requests, messages) ==
    [k \in DOMAIN requests |->
        LET msg_id == requests[k].source_message_id
        IN  [requests[k] EXCEPT !.message_text =
                IF HasMessage(messages, msg_id)
                THEN LookupMessage(messages, msg_id).text ELSE messages[1].text]]

\* lines 87-91: the text of the original message is put on each request
AddMessageText(requests, messages) ==
    [k \in DOMAIN requests |->
        LET msg_id == requests[k].source_message_id
        IN  [requests[k] EXCEPT !.message_text =
                IF HasMessage(messages, msg_id)
                THEN LookupMessage(messages, msg_id).text ELSE ""]]

\* a save step that adds the number of records the extraction returned
SaveRequestsCountsExtracted ==
    /\ pc = "analyze"
    /\ bi > Len(batches)
    /\ IF Len(all_requests) = 0
       THEN /\ pc' = "update_last"
            /\ DropLocals
            /\ last' = Event("save", ci, 0, 0, "skipped")
            /\ UNCHANGED <<store, nextId, total_requests, err, runStore, walked, offered>>
       ELSE IF \E k \in DOMAIN all_requests : ~Hashable(all_requests[k].source_message_id)
       THEN /\ Raise(UnhashableError)
            /\ last' = Event("lookup", ci, Len(all_requests), 0, "raised")
            /\ UNCHANGED <<store, nextId, total_requests, runStore, walked, offered>>
       ELSE LET requests == AddMessageText(all_requests, all_messages)
                result == save_requests(store, requests, nextId)
                added == result.rows
                saved == result.saved_count
            IN  /\ store' = store \cup added
                /\ nextId' = nextId + Cardinality(added)
                /\ total_requests' = total_requests + Len(requests)
                /\ last' = Event("save", ci, Len(requests), saved, "ok")
                /\ runStore' = runStore \cup { [cat |-> ci, row |-> r] : r \in added }
                /\ offered' = offered \cup { compute_hash(MessageTextOf(requests[k])) :
                                               k \in DOMAIN requests }
                /\ walked' = walked
                /\ pc' = "update_last"
                /\ DropLocals
                /\ err' = err
    /\ UNCHANGED <<logs, cats, now, settingsVars, runs, log_id, total_chats,
                   total_messages, config, ci, touched, evicts, finishes, delays>>

\* lines 85-96
SaveRequests ==
    /\ pc = "analyze"
    /\ bi > Len(batches)
    /\ IF Len(all_requests) = 0
       THEN /\ pc' = "update_last"
            /\ DropLocals
            /\ last' = Event("save", ci, 0, 0, "skipped")
            /\ UNCHANGED <<store, nextId, total_requests, err, runStore, walked, offered>>
       ELSE IF \E k \in DOMAIN all_requests : ~Hashable(all_requests[k].source_message_id)
       THEN /\ Raise(UnhashableError)
            /\ last' = Event("lookup", ci, Len(all_requests), 0, "raised")
            /\ UNCHANGED <<store, nextId, total_requests, runStore, walked, offered>>
       ELSE LET requests == AddMessageText(all_requests, all_messages)
                result == save_requests(store, requests, nextId)
                added == result.rows
                saved == result.saved_count
            IN  /\ store' = store \cup added
                /\ nextId' = nextId + Cardinality(added)
                /\ total_requests' = total_requests + saved
                /\ last' = Event("save", ci, Len(requests), saved, "ok")
                /\ runStore' = runStore \cup { [cat |-> ci, row |-> r] : r \in added }
                /\ offered' = offered \cup { compute_hash(MessageTextOf(requests[k])) :
                                               k \in DOMAIN requests }
                /\ walked' = walked
                /\ pc' = "update_last"
                /\ DropLocals
                /\ err' = err
    /\ UNCHANGED <<logs, cats, now, settingsVars, runs, log_id, total_chats,
                   total_messages, config, ci, touched, evicts, finishes, delays>>

\* line 99
UpdateLastParsed ==
    /\ pc = "update_last"
    /\ cats' = update_last_parsed(cats, config[ci].slug)
    /\ last' = Event("last", ci, 0, 0, "ok")
    /\ ci' = ci + 1
    /\ pc' = "categories"
    /\ UNCHANGED <<store, nextId, logs, now, settingsVars, runs, log_id, totalVars,
                   config, walkVars, analyzeVars, err, touched, evicts, finishes,
                   delays, runStore, walked, offered>>

\* a cleanup that leaves the rows the run itself inserted in the table
CleanupSparesInserted ==
    /\ pc = "cleanup"
    /\ LET deleted == cleanup_old_requests(store, MESSAGES_TTL_DAYS)
                          \ { x.row : x \in runStore }
       IN  /\ store' = store \ deleted
           /\ last' = Event("evict", 0, 0, Cardinality(deleted), "ok")
    /\ evicts' = evicts + 1
    /\ pc' = "finish"
    /\ UNCHANGED <<nextId, logs, cats, now, settingsVars, runs, log_id, totalVars,
                   config, ci, walkVars, analyzeVars, err, touched, finishes, delays,
                   runStore, walked, offered>>

\* a cleanup that marks the old rows inactive and keeps them
CleanupSoftDeletes ==
    /\ pc = "cleanup"
    /\ LET deleted == cleanup_old_requests(store, MESSAGES_TTL_DAYS)
       IN  /\ store' = (store \ deleted) \cup { [r EXCEPT !.is_active = FALSE] : r \in deleted }
           /\ last' = Event("evict", 0, 0, Cardinality(deleted), "ok")
    /\ evicts' = evicts + 1
    /\ pc' = "finish"
    /\ UNCHANGED <<nextId, logs, cats, now, settingsVars, runs, log_id, totalVars,
                   config, ci, walkVars, analyzeVars, err, touched, finishes, delays,
                   runStore, walked, offered>>

\* lines 102-106
Cleanup ==
    /\ pc = "cleanup"
    /\ LET deleted == cleanup_old_requests(store, MESSAGES_TTL_DAYS)
       IN  /\ store' = store \ deleted
           /\ last' = Event("evict", 0, 0, Cardinality(deleted), "ok")
    /\ evicts' = evicts + 1
    /\ pc' = "finish"
    /\ UNCHANGED <<nextId, logs, cats, now, settingsVars, runs, log_id, totalVars,
                   config, ci, walkVars, analyzeVars, err, touched, finishes, delays,
                   runStore, walked, offered>>

\* lines 109-119
FinishSuccess ==
    /\ pc = "finish"
    /\ logs' = finish_parse_log(logs, log_id, "success", total_chats, total_messages,
                                total_requests, NoErr)
    /\ last' = Event("finish", 0, 0, 0, "success")
    /\ finishes' = finishes + 1
    /\ pc' = "done"
    /\ UNCHANGED <<store, nextId, cats, now, settingsVars, runs, log_id, totalVars,
                   config, ci, walkVars, analyzeVars, err, touched, evicts, delays,
                   runStore, walked, offered>>

\* a handler that also takes back the rows the run inserted
FinishFailedRollsBack ==
    /\ pc = "except"
    /\ logs' = finish_parse_log(logs, log_id, "failed", total_chats, total_messages,
                                total_requests, err)
    /\ store' = store \ { x.row : x \in runStore }
    /\ last' = Event("finish", 0, 0, 0, "failed")
    /\ finishes' = finishes + 1
    /\ pc' = "done"
    /\ UNCHANGED <<nextId, cats, now, settingsVars, runs, log_id, totalVars,
                   config, ci, walkVars, analyzeVars, err, touched, evicts, delays,
                   runStore, walked, offered>>

\* lines 121-131: the handler records the failure and re-raises
FinishFailed ==
    /\ pc = "except"
    /\ logs' = finish_parse_log(logs, log_id, "failed", total_chats, total_messages,
                                total_requests, err)
    /\ last' = Event("finish", 0, 0, 0, "failed")
    /\ finishes' = finishes + 1
    /\ pc' = "done"
    /\ UNCHANGED <<store, nextId, cats, now, settingsVars, runs, log_id, totalVars,
                   config, ci, walkVars, analyzeVars, err, touched, evicts, delays,
                   runStore, walked, offered>>

Next ==
    \/ Tick
    \/ StartRun
    \/ LoadConfig
    \/ SyncCategories
    \/ GetClient
    \/ NextCategory
    \/ ParseChat
    \/ AfterParse
    \/ AnalyzeBatch
    \/ SaveRequests
    \/ UpdateLastParsed
    \/ Cleanup
    \/ FinishSuccess
    \/ FinishFailed

Spec == Init /\ [][Next]_vars

----------------------------------------------------------------------------
(* The same run when the store is unavailable: an operation of the store    *)
(* raises and leaves the tables as they were.                               *)

\* line 44 raises: outside the try block, so the exception leaves the job
CreateParseLogRaises ==
    /\ pc \in {"idle", "done"}
    /\ runs < MaxRuns
    /\ EnterRun
    /\ log_id' = 0
    /\ err' = StoreError
    /\ last' = Event("create", 0, 0, 0, "raised")
    /\ pc' = "done"
    /\ UNCHANGED <<tableVars, now, settingsVars>>

\* a store operation inside the try block raises
StoreRaises(at, op) ==
    /\ pc = at
    /\ Raise(StoreError)
    /\ last' = Event(op, ci, 0, 0, "raised")
    /\ UNCHANGED <<tableVars, now, settingsVars, runs, log_id, totalVars, config, ci,
                   touched, finishes, delays, runStore, walked, offered>>

\* line 57 raises
SyncCategoriesRaises ==
    /\ StoreRaises("sync", "sync")
    /\ evicts' = evicts

\* line 94 raises
SaveRequestsRaises ==
    /\ bi > Len(batches)
    /\ Len(all_requests) > 0
    /\ \A k \in DOMAIN all_requests : Hashable(all_requests[k].source_message_id)
    /\ StoreRaises("analyze", "save")
    /\ evicts' = evicts

\* line 99 raises
UpdateLastParsedRaises ==
    /\ StoreRaises("update_last", "last")
    /\ evicts' = evicts

\* line 102 raises
CleanupRaises ==
    /\ StoreRaises("cleanup", "evict")
    /\ evicts' = evicts + 1

\* line 109 raises
FinishSuccessRaises ==
    /\ StoreRaises("finish", "finish")
    /\ evicts' = evicts

\* line 123 raises inside the handler: the new exception leaves the job
FinishFailedRaises ==
    /\ pc = "except"
    /\ pc' = "done"
    /\ last' = Event("finish", 0, 0, 0, "raised")
    /\ UNCHANGED <<tableVars, now, settingsVars, runs, log_id, totalVars, config, ci,
                   walkVars, analyzeVars, err, touched, evicts, finishes, delays,
                   runStore, walked, offered>>

NextFault ==
    \/ Next
    \/ CreateParseLogRaises
    \/ SyncCategoriesRaises
    \/ SaveRequestsRaises
    \/ UpdateLastParsedRaises
    \/ CleanupRaises
    \/ FinishSuccessRaises
    \/ FinishFailedRaises

FaultSpec == Init /\ [][NextFault]_vars

----------------------------------------------------------------------------
(* A direct caller of RequestService: it builds a list of records and calls *)
(* save_requests and cleanup_old_requests on one session, as the tests do.  *)

CallerRecords ==
    { [source_message_id |-> x[1], source_chat |-> "c1", message_date |-> now - x[2],
       category |-> "web", message_text |-> x[3]] :
        x \in { <<1, 2, "a50">>, <<2, 0, "a50">>, <<1, 2, "b60">> } }

runVars == <<logs, cats, BATCH_SIZE, MESSAGES_TTL_DAYS, pc, runs, log_id, totalVars,
             config, ci, walkVars, analyzeVars, err, touched, evicts, finishes,
             delays, runStore, walked, offered, race, arg, ret>>

CallerInit ==
    /\ InitTables
    /\ BATCH_SIZE = 1
    /\ pc = "caller"

BuildRecords ==
    /\ pc = "caller"
    /\ nextId <= MaxRowId
    /\ \E requests \in SeqsUpTo(CallerRecords, MaxList) :
         /\ held' = requests
         /\ given' = requests
    /\ repeats' = 0
    /\ last' = Event("build", 0, 0, 0, "ok")
    /\ UNCHANGED <<store, nextId, now, runVars>>

\* save_requests(held): lines 98-137; the dictionaries of held lose message_text
CallSave ==
    /\ pc = "caller"
    /\ repeats < MaxRepeats
    /\ nextId <= MaxRowId
    /\ LET result == IF Len(held) = 0 THEN [rows |-> {}, saved_count |-> 0]
                     ELSE save_requests(store, held, nextId)
       IN  /\ store' = store \cup result.rows
           /\ nextId' = nextId + Cardinality(result.rows)
           /\ last' = Event("save", 0, Len(held), result.saved_count, "ok")
    /\ held' = PopMessageText(held)
    /\ repeats' = repeats + 1
    /\ UNCHANGED <<now, given, runVars>>

\* cleanup_old_requests(days): lines 148-156
CallCleanup ==
    /\ pc = "caller"
    /\ LET deleted == cleanup_old_requests(store, MESSAGES_TTL_DAYS)
       IN  /\ store' = store \ deleted
           /\ last' = Event("evict", 0, 0, Cardinality(deleted), "ok")
           /\ repeats' = IF deleted = {} THEN repeats ELSE 0
    /\ UNCHANGED <<nextId, now, held, given, runVars>>

CallerTick ==
    /\ pc = "caller"
    /\ now < MaxNow
    /\ now' = now + 1
    /\ UNCHANGED <<store, nextId, last, held, given, repeats, runVars>>

CallerNext ==
    \/ BuildRecords
    \/ CallSave
    \/ CallCleanup
    \/ CallerTick

SaveSpec == CallerInit /\ [][CallerNext]_vars

----------------------------------------------------------------------------
(* Two concurrent calls of save_requests, each on its own session: the      *)
(* existence check, the insert and the commit of a call are separate steps, *)
(* and a session sees the committed rows and its own pending rows.          *)

\* a table without the unique constraint
UniqueViolationNever(rows, pending) == FALSE

\* models.py 44-46, unique=True: the database refuses a row whose hash a
\* committed row has
UniqueViolation(rows, pending) ==
    \E r \in pending : \E c \in rows : c.message_text_hash = r.message_text_hash

RaceInit ==
    /\ InitTables
    /\ BATCH_SIZE = 1
    /\ pc = "race"

raceFrame == <<logs, cats, now, BATCH_SIZE, MESSAGES_TTL_DAYS, pc, runs, log_id, totalVars,
               config, ci, walkVars, analyzeVars, err, touched, evicts, finishes,
               delays, runStore, walked, offered, held, given, repeats, arg, ret>>

\* lines 98-101: the call is entered with a list of records
RaceEnter(p) ==
    /\ pc = "race"
    /\ race[p].at = "idle"
    /\ \E requests \in SeqsUpTo(CallerRecords, MaxList) :
         race' = [race EXCEPT ![p] = [at |-> IF Len(requests) = 0 THEN "returned"
                                            ELSE "check",
                                      requests |-> requests, i |-> 1,
                                      pending |-> {}, saved_count |-> 0]]
    /\ last' = Event("enter", p, 0, 0, "ok")
    /\ UNCHANGED <<store, nextId, raceFrame>>

\* lines 104-114: the hash and the existence check of request i
RaceCheck(p) ==
    /\ pc = "race"
    /\ race[p].at = "check"
    /\ LET c == race[p]
           text_hash == compute_hash(MessageTextOf(c.requests[c.i]))
           found == \E r \in SessionSees(store, c.pending) : r.message_text_hash = text_hash
           more == c.i < Len(c.requests)
       IN  /\ race' = [race EXCEPT ![p] =
                  IF found
                  THEN [c EXCEPT !.i = c.i + 1, !.at = IF more THEN "check" ELSE "commit"]
                  ELSE [c EXCEPT !.at = "insert"]]
           /\ last' = Event("check", p, c.i, 0, IF found THEN "found" ELSE "absent")
    /\ UNCHANGED <<store, nextId, raceFrame>>

\* lines 117-132: the row of request i is added to the session
RaceInsert(p) ==
    /\ pc = "race"
    /\ race[p].at = "insert"
    /\ LET c == race[p]
           text_hash == compute_hash(MessageTextOf(c.requests[c.i]))
       IN  race' = [race EXCEPT ![p] =
                  [c EXCEPT !.pending = c.pending \cup {NewRequest(c.requests[c.i], nextId, text_hash)},
                            !.saved_count = c.saved_count + 1,
                            !.i = c.i + 1,
                            !.at = IF c.i < Len(c.requests) THEN "check" ELSE "commit"]]
    /\ nextId' = nextId + 1
    /\ last' = Event("insert", p, race[p].i, 0, "ok")
    /\ UNCHANGED <<store, raceFrame>>

\* lines 134-137: the commit; the database raises IntegrityError on a duplicate
\* hash and the transaction of the call is rolled back
RaceCommit(p) ==
    /\ pc = "race"
    /\ race[p].at = "commit"
    /\ LET c == race[p]
       IN  IF c.saved_count > 0 /\ UniqueViolation(store, c.pending)
           THEN /\ race' = [race EXCEPT ![p] = [c EXCEPT !.at = "integrity_error"]]
                /\ store' = store
                /\ last' = Event("commit", p, 0, 0, "raised")
           ELSE /\ race' = [race EXCEPT ![p] = [c EXCEPT !.at = "returned"]]
                /\ store' = store \cup c.pending
                /\ last' = Event("commit", p, 0, c.saved_count, "ok")
    /\ UNCHANGED <<nextId, raceFrame>>

\* the caller is free to call again
RaceLeave(p) ==
    /\ pc = "race"
    /\ race[p].at \in {"returned", "integrity_error"}
    /\ nextId <= MaxRowId
    /\ race' = [race EXCEPT ![p] = IdleCall]
    /\ last' = Event("leave", p, 0, 0, "ok")
    /\ UNCHANGED <<store, nextId, raceFrame>>

RaceNext ==
    \E p \in Procs :
        \/ RaceEnter(p)
        \/ RaceCheck(p)
        \/ RaceInsert(p)
        \/ RaceCommit(p)
        \/ RaceLeave(p)

RaceSpec == RaceInit /\ [][RaceNext]_vars

----------------------------------------------------------------------------
(* The pure functions of the worker called on their own, as the tests do.  *)

unitFrame == <<tableVars, now, settingsVars, pc, runs, log_id, totalVars, config, ci,
               chat_i, bi, err, touched, evicts, finishes, delays, runStore, walked,
               offered>>

\* split_into_batches(items, BATCH_SIZE) on lists of any items
SplitItems == {1, 2, 3}

SplitInit ==
    /\ InitTables
    /\ pc = "split"

SplitPick ==
    /\ pc = "split"
    /\ all_messages' \in SeqsUpTo(SplitItems, MaxItems)
    /\ batches' = <<>>
    /\ last' = Event("pick", 0, 0, 0, "ok")
    /\ UNCHANGED <<all_requests, unitFrame>>

SplitCall ==
    /\ pc = "split"
    /\ IF BATCH_SIZE <= 0
       THEN /\ batches' = <<>>
            /\ last' = Event("split", 0, Len(all_messages), 0, "raised")
       ELSE LET result == split_into_batches(all_messages, BATCH_SIZE)
            IN  /\ batches' = result
                /\ last' = Event("split", 0, Len(all_messages), Len(result), "ok")
    /\ UNCHANGED <<all_messages, all_requests, unitFrame>>

SplitNext ==
    \/ SplitPick
    \/ SplitCall

SplitSpec == SplitInit /\ [][SplitNext]_vars

\* what a function called on its own leaves alone
fnFrame == <<tableVars, now, BATCH_SIZE, MESSAGES_TTL_DAYS, held, given, repeats, race,
             pc, runs, log_id, totalVars, config, ci, walkVars, analyzeVars, err,
             touched, evicts, finishes, delays, runStore, walked, offered>>

FnInit(at) ==
    /\ InitTables
    /\ BATCH_SIZE = 1
    /\ MESSAGES_TTL_DAYS = 30
    /\ pc = at

\* filter_messages(messages) on lists of candidate messages
Candidates ==
    { [text |-> t, message_id |-> 1, message_date |-> StartDay, chat_id |-> "c1",
       is_bot |-> b, category |-> Absent] : t \in {"s49", "a50", "b60"}, b \in BOOLEAN }

FilterInit == FnInit("filter")

FilterPick ==
    /\ pc = "filter"
    /\ arg' \in SeqsUpTo(Candidates, MaxCands)
    /\ ret' = <<>>
    /\ last' = Event("pick", 0, 0, 0, "ok")
    /\ UNCHANGED fnFrame

FilterCall ==
    /\ pc = "filter"
    /\ ret' = filter_messages(arg)
    /\ last' = Event("filter", 0, Len(arg), Len(filter_messages(arg)), "ok")
    /\ UNCHANGED <<arg, fnFrame>>

FilterNext ==
    \/ FilterPick
    \/ FilterCall

FilterSpec == FilterInit /\ [][FilterNext]_vars

\* attach_metadata(requests, messages) on the records of a reply and a batch
BatchMessages ==
    { [text |-> x[3], message_id |-> x[1], message_date |-> StartDay - x[1],
       chat_id |-> x[2], is_bot |-> FALSE, category |-> "web"] :
        x \in { <<1, "c1", "a50">>, <<2, "c2", "b60">>, <<1, "c2", "b60">> } }

AttachInit == FnInit("attach")

AttachPick ==
    /\ pc = "attach"
    /\ \E messages \in SeqsUpTo(BatchMessages, MaxList) :
       \E ids \in SeqsUpTo({1, 2} \cup UnresolvedIds \cup {BadId}, MaxList) :
          arg' = [requests |-> [k \in DOMAIN ids |-> RawRecord(ids[k])],
                  messages |-> messages]
    /\ ret' = <<>>
    /\ last' = Event("pick", 0, 0, 0, "ok")
    /\ UNCHANGED fnFrame

AttachCall ==
    /\ pc = "attach"
    /\ last.op = "pick"
    /\ ret' = attach_metadata(arg.requests, arg.messages)
    /\ last' = Event("attach", 0, Len(arg.requests),
                     Len(attach_metadata(arg.requests, arg.messages)), "ok")
    /\ UNCHANGED <<arg, fnFrame>>

AttachNext ==
    \/ AttachPick
    \/ AttachCall

AttachSpec == AttachInit /\ [][AttachNext]_vars

\* parse_gemini_response(response_text) on the text of a JSON array as it is, in a
\* plain fence and in a fence that carries a word after the opening backquotes
LangTags == {"json", "python"}

FenceText(recs, wrapper, tag, padded) ==
    LET body == CASE wrapper = "unwrapped" -> <<ArrayTok(recs)>>
                  [] wrapper = "plain" ->
                        <<Fence, Newline, ArrayTok(recs), Newline, Fence>>
                  [] OTHER ->
                        <<Fence, Tok(tag), Newline, ArrayTok(recs), Newline, Fence>>
    IN  IF padded THEN <<Newline>> \o body \o <<Newline>> ELSE body

ParseInit == FnInit("parse")

ParsePick ==
    /\ pc = "parse"
    /\ \E ids \in SeqsUpTo({1, 2} \cup UnresolvedIds \cup {BadId}, MaxList) :
       \E tag \in LangTags, padded \in BOOLEAN :
          arg' = [recs |-> [k \in DOMAIN ids |-> RawRecord(ids[k])],
                  tag |-> tag, padded |-> padded]
    /\ ret' = <<>>
    /\ last' = Event("pick", 0, 0, 0, "ok")
    /\ UNCHANGED fnFrame

ParseCall ==
    /\ pc = "parse"
    /\ last.op = "pick"
    /\ ret' = [wrapper \in {"unwrapped", "plain", "tagged"} |->
                parse_gemini_response(FenceText(arg.recs, wrapper, arg.tag, arg.padded))]
    /\ last' = Event("parse", 0, Len(arg.recs), 0, arg.tag)
    /\ UNCHANGED <<arg, fnFrame>>

ParseNext ==
    \/ ParsePick
    \/ ParseCall

ParseSpec == ParseInit /\ [][ParseNext]_vars

----------------------------------------------------------------------------
(* The query surface of RequestService: a reader calls get_requests and     *)
(* get_stats_by_category on a table that calls of save_requests filled.     *)

\* category=None of get_requests
NoCategoryFilter == "None"
CategoryFilters == {NoCategoryFilter, "", "web", "bots"}
QueryDays == {0, 1, 2, 7}

\* the records the table is filled from: id, age in days, category, text
QueryRecords ==
    { [source_message_id |-> x[1], source_chat |-> "c1", message_date |-> now - x[2],
       category |-> x[3], message_text |-> x[4]] :
        x \in { <<1, 0, "web", "a50">>, <<2, 1, "web", "b60">>,
                <<3, 1, "bots", "s49">>, <<9, 2, Absent, "">> } }

\* lines 58-66: the conditions of both queries; "if category:" takes the
\* empty string as no filter
Conditions(rows, category, days) ==
    LET cutoff_date == now - days
    IN  { r \in rows :
            /\ r.is_active
            /\ r.message_date >= cutoff_date
            /\ (category # NoCategoryFilter /\ category # "") => r.category = category }

\* order_by(message_date.desc()): the orders the database may return the rows
\* in; rows of one date come in the order it chooses
DescOrders(rows) ==
    { o \in [1..Cardinality(rows) -> rows] :
        /\ \A i, j \in DOMAIN o : i # j => o[i] # o[j]
        /\ \A i, j \in DOMAIN o : i < j => o[i].message_date >= o[j].message_date }

\* a get_requests that counts the rows of the page
get_requests_counts_page(rows, category, days, offset, limit, order) ==
    LET requests == SubSeq(order, offset + 1, Min(offset + limit, Len(order)))
    IN  [requests |-> requests, total |-> Len(requests)]

\* lines 40-84; order is the order the data query returned the rows in
get_requests(rows, category, days, offset, limit, order) ==
    LET total == Cardinality(Conditions(rows, category, days))
        requests == SubSeq(order, offset + 1, Min(offset + limit, Len(order)))
    IN  [requests |-> requests, total |-> total]

\* a statistics query that reports every configured category, with 0 if need be
get_stats_with_zeros(rows) ==
    LET active == { r \in rows : r.is_active }
    IN  [c \in Slugs \cup { r.category : r \in active } |->
            Cardinality({ r \in active : r.category = c })]

\* lines 214-230: one result row per group of the active rows
get_stats_by_category(rows) ==
    LET active == { r \in rows : r.is_active }
    IN  [c \in { r.category : r \in active } |->
            Cardinality({ r \in active : r.category = c })]

queryFrame == <<logs, cats, now, BATCH_SIZE, MESSAGES_TTL_DAYS, held, given, repeats,
                race, pc, runs, log_id, totalVars, config, ci, walkVars, analyzeVars,
                err, touched, evicts, finishes, delays, runStore, walked, offered>>

QueryInit == FnInit("reader")

\* save_requests fills the table
QuerySave ==
    /\ pc = "reader"
    /\ nextId <= MaxRowId
    /\ \E requests \in SeqsUpTo(QueryRecords, MaxList) :
         LET result == IF Len(requests) = 0 THEN [rows |-> {}, saved_count |-> 0]
                       ELSE save_requests(store, requests, nextId)
         IN  /\ store' = store \cup result.rows
             /\ nextId' = nextId + Cardinality(result.rows)
             /\ last' = Event("save", 0, Len(requests), result.saved_count, "ok")
    /\ arg' = <<>>
    /\ ret' = <<>>
    /\ UNCHANGED queryFrame

\* the reader looks at the table after a call that filled it
CallGetRequests ==
    /\ pc = "reader"
    /\ last.op = "save"
    /\ \E category \in CategoryFilters, days \in QueryDays :
       \E offset \in 0..MaxOffset, limit \in 0..MaxLimit :
       \E order \in DescOrders(Conditions(store, category, days)) :
          /\ arg' = [category |-> category, days |-> days, offset |-> offset,
                     limit |-> limit]
          /\ ret' = get_requests(store, category, days, offset, limit, order)
    /\ last' = Event("get_requests", 0, 0, 0, "ok")
    /\ UNCHANGED <<store, nextId, queryFrame>>

CallGetStats ==
    /\ pc = "reader"
    /\ last.op = "save"
    /\ arg' = <<>>
    /\ ret' = get_stats_by_category(store)
    /\ last' = Event("get_stats", 0, 0, 0, "ok")
    /\ UNCHANGED <<store, nextId, queryFrame>>

QueryNext ==
    \/ QuerySave
    \/ CallGetRequests
    \/ CallGetStats

QuerySpec == QueryInit /\ [][QueryNext]_vars

----------------------------------------------------------------------------
(* CategoryService called on its own with one configuration after another. *)

\* configurations of any of the category slugs, each with a list of chats
SyncConfigs ==
    { cfg \in SeqsUpTo([slug : Slugs, chats : {<<>>, <<"c1">>, <<"c1", "c2">>}],
                       Cardinality(Slugs)) :
        \A j, k \in DOMAIN cfg : j # k => cfg[j].slug # cfg[k].slug }

syncFrame == <<store, nextId, logs, BATCH_SIZE, MESSAGES_TTL_DAYS, held, given, repeats,
               race, arg, ret, pc, runs, log_id, totalVars, ci, walkVars, analyzeVars,
               err, touched, evicts, finishes, delays, runStore, walked, offered>>

SyncInit == FnInit("syncer")

\* sync_from_config(config); the step records how many categories it made
\* active again and how many it made inactive
CallSync ==
    /\ pc = "syncer"
    /\ \E cfg \in SyncConfigs :
         LET table == sync_from_config(cats, cfg)
         IN  /\ config' = cfg
             /\ cats' = table
             /\ last' = Event("sync", 0,
                    Cardinality({ s \in Slugs : cats[s].exists /\ ~cats[s].is_active
                                                 /\ table[s].is_active }),
                    Cardinality({ s \in Slugs : cats[s].is_active /\ ~table[s].is_active }),
                    "ok")
    /\ UNCHANGED <<now, syncFrame>>

\* update_last_parsed(slug)
CallUpdateLastParsed ==
    /\ pc = "syncer"
    /\ \E slug \in Slugs :
         /\ cats' = update_last_parsed(cats, slug)
         /\ last' = Event("last", 0, 0, 0, slug)
    /\ UNCHANGED <<now, config, syncFrame>>

SyncTick ==
    /\ pc = "syncer"
    /\ now < MaxNow
    /\ now' = now + 1
    /\ UNCHANGED <<cats, config, last, syncFrame>>

SyncNext ==
    \/ CallSync
    \/ CallUpdateLastParsed
    \/ SyncTick

SyncSpec == SyncInit /\ [][SyncNext]_vars

----------------------------------------------------------------------------
(* One run as a function of what it is given: the table, the configuration *)
(* in the order it is walked, what each chat delivers and which messages    *)
(* the model extracts a record from.  Two walks of the same configuration   *)
(* in different orders are compared.                                        *)

\* parser.py lines 136-157: the messages of the chats from chat i on
RECURSIVE parse_category(_, _, _, _)
parse_category(category_slug, chat_ids, i, contents) ==
    IF i > Len(chat_ids) THEN <<>>
    ELSE LET h == contents[chat_ids[i]]
             messages == parse_chat(chat_ids[i], LookbackDays, h, Len(h) + 2)
         IN  TagCategory(messages, category_slug)
                \o parse_category(category_slug, chat_ids, i + 1, contents)

\* the reply of the model to a batch: one record for each message of the batch
\* it extracts a request from, with the id of the message
ExtractReply(batch, wanted) ==
    LET found == SelectSeq(batch, LAMBDA msg : <<msg.chat_id, msg.message_id>> \in wanted)
    IN  [kind |-> "array", recs |-> [k \in DOMAIN found |-> RawRecord(found[k].message_id)]]

\* analyzer.py lines 213-224: the requests of the batches from batch i on
RECURSIVE analyze_all(_, _, _)
analyze_all(bs, i, wanted) ==
    IF i > Len(bs) THEN <<>>
    ELSE analyze_batch(bs[i], ExtractReply(bs[i], wanted)) \o analyze_all(bs, i + 1, wanted)

\* scheduler.py lines 66-96 for one category: the table after it
CategoryRows(rows, id, cat, contents, wanted) ==
    IF Len(cat.chats) = 0 THEN [rows |-> rows, id |-> id]
    ELSE LET messages == parse_category(cat.slug, cat.chats, 1, contents)
             requests == analyze_all(split_into_batches(messages, BATCH_SIZE), 1, wanted)
             result == save_requests(rows, AddMessageText(requests, messages), id)
         IN  IF Len(messages) = 0 \/ Len(requests) = 0 THEN [rows |-> rows, id |-> id]
             ELSE [rows |-> rows \cup result.rows, id |-> id + Cardinality(result.rows)]

\* scheduler.py lines 65-99: the table after the categories from k on
RECURSIVE SavedRows(_, _, _, _, _, _)
SavedRows(rows, id, cfg, k, contents, wanted) ==
    IF k > Len(cfg) THEN rows
    ELSE LET after == CategoryRows(rows, id, cfg[k], contents, wanted)
         IN  SavedRows(after.rows, after.id, cfg, k + 1, contents, wanted)

\* scheduler.py lines 65-104: the table after the loop and the cleanup
JobRows(rows, id, cfg, contents, wanted) ==
    LET saved == SavedRows(rows, id, cfg, 1, contents, wanted)
    IN  saved \ cleanup_old_requests(saved, MESSAGES_TTL_DAYS)

IsReordering(s, t) ==
    /\ Len(s) = Len(t)
    /\ \E p \in [DOMAIN s -> DOMAIN t] :
          /\ \A j, k \in DOMAIN s : j # k => p[j] # p[k]
          /\ \A k \in DOMAIN s : s[k] = t[p[k]]

\* the same categories with the same chats, in any order
Reorderings(cfg) ==
    { o \in [DOMAIN cfg -> [slug : Slugs, chats : SeqsUpTo(ChatIds, MaxList)]] :
        \E p \in [DOMAIN cfg -> DOMAIN cfg] :
           /\ \A j, k \in DOMAIN cfg : j # k => p[j] # p[k]
           /\ \A k \in DOMAIN cfg :
                 /\ o[k].slug = cfg[p[k]].slug
                 /\ IsReordering(o[k].chats, cfg[p[k]].chats) }

\* the messages the model may extract a request from: chat and message id
Extractable == { <<"c1", 1>>, <<"c2", 1>>, <<"c2", 2>>, <<"c3", 1>> }

\* the tables a run may find: empty, or with the row of an earlier run
EarlierRows ==
    { {}, {[id |-> 1, category |-> "web", source_chat |-> "c1", source_message_id |-> 1,
            message_date |-> StartDay - 1, message_text_hash |-> compute_hash("a50"),
            is_active |-> TRUE]} }

orderFrame == <<logs, cats, now, BATCH_SIZE, MESSAGES_TTL_DAYS, held, given, repeats, race, pc, runs,
                log_id, totalVars, ci, walkVars, analyzeVars, err, touched, evicts,
                finishes, delays, runStore, walked, offered>>

OrderInit ==
    /\ InitTables
    /\ BATCH_SIZE > 0
    /\ pc = "orders"

\* the table, the sources, the extraction and the two orders are fixed
OrderPick ==
    /\ pc = "orders"
    /\ last.op = "none"
    /\ store' \in EarlierRows
    /\ nextId' = Cardinality(store') + 1
    /\ \E cfg \in Configs : \E other \in Reorderings(cfg) :
         /\ config' = cfg
         /\ \E contents \in [ChatIds -> UNION { Histories(c) : c \in ChatIds }] :
            \E wanted \in SUBSET Extractable :
               /\ \A c \in ChatIds : contents[c] \in Histories(c)
               /\ arg' = [other |-> other, contents |-> contents, wanted |-> wanted]
    /\ ret' = <<>>
    /\ last' = Event("pick", 0, 0, 0, "ok")
    /\ UNCHANGED orderFrame

\* the run in the order of the configuration and the run in the other order
OrderRun ==
    /\ pc = "orders"
    /\ last.op = "pick"
    /\ ret' = [first |-> JobRows(store, nextId, config, arg.contents, arg.wanted),
               second |-> JobRows(store, nextId, arg.other, arg.contents, arg.wanted),
               first_saved |-> SavedRows(store, nextId, config, 1, arg.contents, arg.wanted),
               second_saved |-> SavedRows(store, nextId, arg.other, 1, arg.contents,
                                          arg.wanted)]
    /\ last' = Event("runs", 0, 0, 0, "ok")
    /\ UNCHANGED <<store, nextId, config, arg, orderFrame>>

OrderNext ==
    \/ OrderPick
    \/ OrderRun

OrderSpec == OrderInit /\ [][OrderNext]_vars

----------------------------------------------------------------------------
(* parse_chat called on its own on a chat that delivers any history.        *)

ReadPool == {MsgA, MsgB, MsgShort, MsgBot, MsgOld, MsgNoText, MsgEdge}

ReadInit == FnInit("read")

ReadPick ==
    /\ pc = "read"
    /\ last.op = "none"
    /\ \E h \in SeqsUpTo(ReadPool, MaxHist) : \E fail_at \in 0..(Len(h) + 2) :
         arg' = [chat_id |-> "c1", h |-> h, fail_at |-> fail_at]
    /\ ret' = <<>>
    /\ last' = Event("pick", 0, 0, 0, "ok")
    /\ UNCHANGED fnFrame

ReadCall ==
    /\ pc = "read"
    /\ last.op = "pick"
    /\ ret' = parse_chat(arg.chat_id, LookbackDays, arg.h, arg.fail_at)
    /\ last' = Event("read", 0, Len(arg.h), 0,
                     IF ReadMessages(arg.chat_id, LookbackDays, arg.h, arg.fail_at).raised
                     THEN "raised" ELSE "ok")
    /\ UNCHANGED <<arg, fnFrame>>

ReadNext ==
    \/ ReadPick
    \/ ReadCall

ReadSpec == ReadInit /\ [][ReadNext]_vars

----------------------------------------------------------------------------
(* Claims *)

\* C1: in every reachable state of the store no two rows of freelance_requests
\* have the same message_text_hash: records with the same raw text, given in one
\* call of save_requests or in several, leave one row whatever their other fields.
C1_UniqueContentHash ==
    \A r1, r2 \in store : r1.message_text_hash = r2.message_text_hash => r1 = r2

\* a save of the run was given two records, found the table empty and stored one row
C1_Witness ==
    /\ pc = "update_last"
    /\ last.op = "save" /\ last.n = 2 /\ last.m = 1
    /\ Cardinality(store) = 1

\* C2 (as claimed): a call of save_requests with a list that was saved before, no
\* row evicted in between, inserts nothing and returns 0.
C2_SecondSaveInsertsNothing ==
    [][(pc = "caller" /\ repeats >= 1 /\ repeats' = repeats + 1)
         => (store' = store /\ last'.m = 0)]_vars

\* C3: save_requests returns the number of rows it inserted, which is the number
\* of distinct hashes among the given records that no row had before the call, and
\* of several records with one hash the first in list order is the one stored.
FirstWithHash(requests, h) ==
    CHOOSE k \in DOMAIN requests :
        /\ compute_hash(MessageTextOf(requests[k])) = h
        /\ \A j \in DOMAIN requests :
              compute_hash(MessageTextOf(requests[j])) = h => k <= j

C3_SaveReturnsNewHashCount ==
    [][(pc = "caller" /\ repeats' = repeats + 1) =>
         LET added == store' \ store
             hashes == { compute_hash(MessageTextOf(held[k])) : k \in DOMAIN held }
             fresh == { h \in hashes : \A r \in store : r.message_text_hash # h }
         IN  /\ store \subseteq store'
             /\ last'.m = Cardinality(added)
             /\ Cardinality(added) = Cardinality(fresh)
             /\ \A h \in fresh : \E r \in added :
                   LET first == held[FirstWithHash(held, h)]
                   IN  /\ r.message_text_hash = h
                       /\ r.source_message_id = first.source_message_id
                       /\ r.message_date = first.message_date
                       /\ r.source_chat = first.source_chat
                       /\ r.category = first.category]_vars

\* the caller saved two records of one text and different ids and dates: one row,
\* that of the first record
C3_Witness ==
    /\ pc = "caller"
    /\ last.op = "save" /\ last.n = 2 /\ last.m = 1
    /\ Len(given) = 2
    /\ given[1].message_text = given[2].message_text
    /\ given[1].source_message_id # given[2].source_message_id
    /\ given[1].message_date # given[2].message_date
    /\ \E r \in store : /\ r.source_message_id = given[1].source_message_id
                         /\ r.message_date = given[1].message_date

\* C4 (as claimed): every run that created its parse log makes exactly one terminal
\* update of it, so that at the end of the run the log is success or failed.
C4_OneTerminalUpdate ==
    (pc = "done" /\ log_id # 0) =>
        /\ log_id \in DOMAIN logs
        /\ logs[log_id].status \in {"success", "failed"}
        /\ logs[log_id].finished_at # AbsentDate
        /\ finishes = 1

\* C5: when split_into_batches or the message lookup of a category raises, no
\* category after it is read, cleanup_old_requests is not called, nothing is
\* written between the exception and the end of the run, and the parse log of the
\* run ends failed with the text of that exception.
C5_Errors == {BatchSizeError, UnhashableError}

C6_FailedRunKeepsEarlierRows ==
    (pc = "done" /\ err # NoErr /\ ci \in 1..Len(config)) =>
        \A x \in runStore : x.cat < ci => x.row \in store

\* a run that saved a row for its first category failed in its second
C6_Witness ==
    /\ pc = "done" /\ err # NoErr /\ ci = 2
    /\ \E x \in runStore : x.cat = 1 /\ x.row \in store
    /\ log_id # 0 /\ logs[log_id].status = "failed"

\* C7 (as claimed): a run in which an operation of the store raised ends with its
\* parse log failed and the text of the exception in error_message.
C7_StoreFailureRecorded ==
    (pc = "done" /\ err = StoreError /\ log_id # 0) =>
        /\ logs[log_id].status = "failed"
        /\ logs[log_id].error_message = StoreError

C9_FailedSourceSkipped ==
    /\ [][(pc = "parse" /\ chat_i' = chat_i + 1) =>
              /\ pc' = "parse" /\ err' = NoErr /\ ci' = ci
              /\ Len(all_messages') >= Len(all_messages)
              /\ SubSeq(all_messages', 1, Len(all_messages)) = all_messages
              /\ last'.tag \in {"raised", "raised_partway"} =>
                    (all_messages' = all_messages /\ last'.m = 0)]_vars
    /\ [] ((pc = "parse" /\ last.op = "read" /\ last.tag # "ok") =>
              /\ err = NoErr
              /\ chat_i <= Len(config[ci].chats) => ENABLED ParseChat
              /\ chat_i > Len(config[ci].chats) => ENABLED AfterParse)

\* the second chat of a category failed part-way: the message of the first is kept
C9_Witness ==
    /\ pc = "parse" /\ last.op = "read" /\ last.tag = "raised_partway"
    /\ last.n = 2 /\ Len(all_messages) = 1

\* C10: a batch whose call raises, or whose reply is empty, is not JSON or is not
\* a list, adds no request; the requests of the batches before it stay, the loop
\* goes on to the next batch, and no exception leaves analyze_all.
C10_BadReplies == {"api_error", "empty", "not_json", "not_array"}

C10_FailedBatchSkipped ==
    /\ [][(pc = "analyze" /\ bi' = bi + 1) =>
              /\ pc' = "analyze" /\ err' = NoErr /\ ci' = ci /\ batches' = batches
              /\ Len(all_requests') >= Len(all_requests)
              /\ SubSeq(all_requests', 1, Len(all_requests)) = all_requests
              /\ last'.tag \in C10_BadReplies =>
                    (all_requests' = all_requests /\ last'.m = 0)]_vars
    /\ [] ((pc = "analyze" /\ last.op = "extract" /\ last.tag \in C10_BadReplies) =>
              /\ err = NoErr
              /\ bi <= Len(batches) => ENABLED AnalyzeBatch
              /\ bi > Len(batches) => ENABLED SaveRequests)

\* the second of two batches got a reply that is not a list: the request of the
\* first batch is kept
C10_Witness ==
    /\ pc = "analyze" /\ last.op = "extract" /\ last.tag = "not_array"
    /\ last.n = 2 /\ Len(batches) = 2 /\ Len(all_requests) = 1

\* C11: cleanup_old_requests(days) deletes the rows whose message_date is before
\* now - days and no other, returns their number, and leaves the remaining rows,
\* a row dated exactly now - days among them, as they were.
C11_EvictBoundary ==
    [][(pc = "caller" /\ last'.op = "evict" /\ now' = now) =>
         LET cutoff == now - MESSAGES_TTL_DAYS
         IN  /\ store' = { r \in store : r.message_date >= cutoff }
             /\ last'.m = Cardinality({ r \in store : r.message_date < cutoff })
             /\ last'.m = Cardinality(store) - Cardinality(store')]_vars

\* a cleanup deleted one row and kept a row dated exactly at the cutoff
C11_Witness ==
    /\ pc = "caller" /\ last.op = "evict" /\ last.m = 1
    /\ \E r \in store : r.message_date = now - MESSAGES_TTL_DAYS

\* C12: in a run cleanup_old_requests is called at most once and only when the
\* loop has passed every category of the configuration; the parse log is success
\* only when the call was made and returned; a run that raised inside the loop
\* never calls it.
C12_EvictAfterAllCategories ==
    /\ evicts <= 1
    /\ evicts = 1 => (ci > Len(config) /\ pc \in {"finish", "except", "done"})
    /\ (pc = "done" /\ log_id # 0 /\ logs[log_id].status = "success") =>
            (evicts = 1 /\ err = NoErr /\ last.op = "finish")
    /\ (err # NoErr /\ ci \in 1..Len(config)) => evicts = 0

\* a run over two categories read both, called the cleanup and ended success
C12_Witness ==
    /\ pc = "done" /\ Len(config) = 2 /\ touched = {1, 2}
    /\ evicts = 1 /\ logs[log_id].status = "success"

\* C13: whatever the interleaving of the checks, inserts and commits of two
\* concurrent calls of save_requests, no two rows of the table have the same
\* message_text_hash, and a call whose pending row meets a committed row of the
\* same hash ends with the IntegrityError of the unique constraint and adds no row.
C13_RaceKeepsHashUnique ==
    /\ [] (\A r1, r2 \in store : r1.message_text_hash = r2.message_text_hash => r1 = r2)
    /\ [] (\A p \in Procs :
             /\ race[p].at = "returned" => race[p].pending \subseteq store
             /\ race[p].at = "integrity_error" =>
                   /\ race[p].pending \cap store = {}
                   /\ \E r \in race[p].pending : \E c \in store :
                          c.message_text_hash = r.message_text_hash)
    /\ [][\A p \in Procs :
             (race[p].at = "commit" /\ race'[p].at # "commit"
              /\ \E r \in race[p].pending : \E c \in store :
                     c.message_text_hash = r.message_text_hash) =>
                (race'[p].at = "integrity_error" /\ store' = store)]_vars

\* both calls passed the check for one hash before either committed: one row of
\* that hash is in the table and the other call ended with IntegrityError
C13_Witness ==
    /\ pc = "race"
    /\ race[1].at = "returned" /\ race[2].at = "integrity_error"
    /\ \E r1 \in race[1].pending : \E r2 \in race[2].pending :
          /\ r1.message_text_hash = r2.message_text_hash
          /\ r1 \in store /\ r2 \notin store

\* C14: the chats_parsed, messages_found and requests_extracted of a successful
\* run are the sums, over the categories the run walked, of the chats of the
\* category, of the messages parse_category returned for it and of the rows its
\* save inserted; requests_extracted is the number of hashes given to
\* save_requests in the run that no row had when the run started: the three
\* depend on the set of the categories' contributions, not on their order.
RECURSIVE SumChats(_)
SumChats(S) ==
    IF S = {} THEN 0 ELSE LET w == CHOOSE w \in S : TRUE IN w.chats + SumChats(S \ {w})

RECURSIVE SumMessages(_)
SumMessages(S) ==
    IF S = {} THEN 0 ELSE LET w == CHOOSE w \in S : TRUE IN w.messages + SumMessages(S \ {w})

C14_MetricsAreSums ==
    (pc \in {"cleanup", "finish", "done"} /\ err = NoErr) =>
        /\ { w.cat : w \in walked } = { c \in 1..Len(config) : Len(config[c].chats) > 0 }
        /\ Cardinality(walked) = Cardinality({ w.cat : w \in walked })
        /\ \A w \in walked : w.chats = Len(config[w.cat].chats)
        /\ total_chats = SumChats(walked)
        /\ total_messages = SumMessages(walked)
        /\ total_requests = Cardinality(runStore)
        /\ pc = "cleanup" =>
              LET before == store \ { x.row : x \in runStore }
              IN  total_requests =
                    Cardinality(offered \ { r.message_text_hash : r \in before })
        /\ pc = "done" => /\ logs[log_id].status = "success"
                          /\ logs[log_id].chats_parsed = total_chats
                          /\ logs[log_id].messages_found = total_messages
                          /\ logs[log_id].requests_extracted = total_requests

\* a successful run over two categories, each of which had messages and rows
C14_Witness ==
    /\ pc = "done" /\ err = NoErr /\ Len(config) = 2
    /\ logs[log_id].status = "success"
    /\ logs[log_id].chats_parsed = 3
    /\ logs[log_id].messages_found = 3
    /\ logs[log_id].requests_extracted = 2
    /\ { x.cat : x \in runStore } = {1, 2}

\* C15 (as claimed): every row a save of the run inserts for a record that
\* attach_metadata resolved has the message_text_hash, source_chat, message_date
\* and category of one and the same message of the category.
C15_HashOfTheSourceMessage ==
    [][(pc = "analyze" /\ pc' = "update_last") =>
         \A r \in store' \ store :
            r.source_chat # "" =>
               \E k \in DOMAIN all_messages :
                  LET msg == all_messages[k]
                  IN  /\ msg.message_id = r.source_message_id
                      /\ msg.chat_id = r.source_chat
                      /\ msg.message_date = r.message_date
                      /\ msg.category = r.category
                      /\ compute_hash(msg.text) = r.message_text_hash]_vars

\* C16: for N items and a batch size B > 0 split_into_batches returns ceil(N / B)
\* batches, none empty and none longer than B, whose concatenation in order is
\* the input; for N = 0 it returns no batch at all.
RECURSIVE Flatten(_)
Flatten(bs) == IF Len(bs) = 0 THEN <<>> ELSE Head(bs) \o Flatten(Tail(bs))

C16_SplitCorrect ==
    (pc = "split" /\ last.op = "split" /\ last.tag = "ok") =>
        LET N == Len(all_messages)
            B == BATCH_SIZE
        IN  /\ B > 0
            /\ Len(batches) * B >= N
            /\ (Len(batches) - 1) * B < N \/ (N = 0 /\ batches = <<>>)
            /\ N = 0 => batches = <<>>
            /\ \A k \in DOMAIN batches : Len(batches[k]) >= 1 /\ Len(batches[k]) <= B
            /\ Flatten(batches) = all_messages

\* three items split by two: a full batch and a shorter one
C16_Witness ==
    /\ pc = "split" /\ last.op = "split" /\ last.tag = "ok"
    /\ Len(all_messages) = 3 /\ BATCH_SIZE = 2
    /\ Len(batches) = 2 /\ Len(batches[2]) = 1

\* C17: filter_messages returns the messages of its argument whose text has at
\* least 50 characters and whose is_bot is false, all of them, each once, in the
\* order of the argument, and no other message.
C17_Passes(msg) == TextLen(msg.text) >= 50 /\ ~msg.is_bot

C17_FilterExact ==
    (pc = "filter" /\ last.op = "filter") =>
        /\ \A k \in DOMAIN ret : C17_Passes(ret[k])
        /\ Len(ret) = Cardinality({ k \in DOMAIN arg : C17_Passes(arg[k]) })
        /\ \E f \in [DOMAIN ret -> DOMAIN arg] :
              /\ \A j, k \in DOMAIN ret : j < k => f[j] < f[k]
              /\ \A k \in DOMAIN ret : ret[k] = arg[f[k]]

\* the messages a run gives to split_into_batches and to analyze_batch all pass
C17_RunMessagesFiltered ==
    /\ \A k \in DOMAIN all_messages : C17_Passes(all_messages[k])
    /\ \A b \in DOMAIN batches : \A k \in DOMAIN batches[b] : C17_Passes(batches[b][k])

\* a message of 50 characters is kept between a short one and one of a bot
C17_Witness ==
    /\ pc = "filter" /\ last.op = "filter"
    /\ Len(arg) = 3 /\ Len(ret) = 1
    /\ TextLen(arg[1].text) = 49 /\ ~arg[1].is_bot
    /\ TextLen(arg[2].text) = 50 /\ ~arg[2].is_bot
    /\ arg[3].is_bot /\ TextLen(arg[3].text) = 60
    /\ ret[1] = arg[2]

\* C18: a record whose source_message_id is the message_id of a message of the
\* batch comes back from attach_metadata with the chat_id, message_date, category
\* and text of a message of the batch that has this id.
C18_AttachCopiesMetadata ==
    (pc = "attach" /\ last.op = "attach") =>
        \A k \in DOMAIN arg.requests :
            (\E j \in DOMAIN arg.messages :
                 arg.messages[j].message_id = arg.requests[k].source_message_id) =>
            /\ k \in DOMAIN ret
            /\ \E j \in DOMAIN arg.messages :
                  /\ arg.messages[j].message_id = arg.requests[k].source_message_id
                  /\ ret[k].source_chat = arg.messages[j].chat_id
                  /\ ret[k].message_date = arg.messages[j].message_date
                  /\ ret[k].category = arg.messages[j].category
                  /\ ret[k].message_text = arg.messages[j].text

\* the second of two records names the one message of the batch and got its fields
C18_Witness ==
    /\ pc = "attach" /\ last.op = "attach"
    /\ Len(arg.messages) = 1 /\ Len(arg.requests) = 2
    /\ arg.requests[2].source_message_id = arg.messages[1].message_id
    /\ arg.requests[1].source_message_id # arg.messages[1].message_id
    /\ ret[2].source_chat = arg.messages[1].chat_id
    /\ ret[2].message_text = arg.messages[1].text

\* C19: attach_metadata returns as many records as it got, in the same order, and
\* a record whose source_message_id is the message_id of no message of the batch
\* comes back as it was: no field changed and none of source_chat, message_date,
\* category and message_text present.
C19_AttachKeepsUnresolved ==
    (pc = "attach" /\ last.op = "attach") =>
        /\ Len(ret) = Len(arg.requests)
        /\ \A k \in DOMAIN arg.requests :
              /\ ret[k].source_message_id = arg.requests[k].source_message_id
              /\ (\A j \in DOMAIN arg.messages :
                     arg.messages[j].message_id # arg.requests[k].source_message_id) =>
                    /\ ret[k] = arg.requests[k]
                    /\ ret[k].source_chat = Absent
                    /\ ret[k].message_date = AbsentDate
                    /\ ret[k].category = Absent
                    /\ ret[k].message_text = Absent

\* an unresolved record came back unchanged before a resolved one
C19_Witness ==
    /\ pc = "attach" /\ last.op = "attach"
    /\ Len(arg.messages) = 1 /\ Len(arg.requests) = 2 /\ Len(ret) = 2
    /\ arg.requests[1].source_message_id \in UnresolvedIds
    /\ ret[1] = arg.requests[1]
    /\ ret[2].source_chat = arg.messages[1].chat_id

\* C20: the text of a JSON array parses to the same list of records whether it is
\* given as it is, in a plain fence, or in a fence that carries a language tag.
C20_FencesParseAlike ==
    (pc = "parse" /\ last.op = "parse") =>
        /\ ret["unwrapped"] = [raised |-> FALSE, value |-> arg.recs]
        /\ ret["plain"] = ret["unwrapped"]
        /\ ret["tagged"] = ret["unwrapped"]

\* what the code does: with the tag json the three agree, with another tag the
\* tag stays in the text and the decoding raises
C20_OnlyJsonTagParses ==
    (pc = "parse" /\ last.op = "parse") =>
        /\ ret["unwrapped"] = [raised |-> FALSE, value |-> arg.recs]
        /\ ret["plain"] = ret["unwrapped"]
        /\ arg.tag = "json" => ret["tagged"] = ret["unwrapped"]
        /\ arg.tag # "json" => ret["tagged"].raised

C20_TaggedFenceParsed ==
    /\ pc = "parse" /\ last.op = "parse" /\ arg.tag = "json" /\ arg.padded
    /\ Len(arg.recs) = 2 /\ ret["tagged"].value = arg.recs

\* C21: get_requests returns as total the number of rows dated at or after
\* now - days (of the given category when one is given), whatever offset and
\* limit are, and as page the rows at positions offset+1 .. offset+limit of
\* those rows in descending order of message_date: at most limit rows, none when
\* offset >= total.
C21_Matching ==
    { r \in store :
        /\ r.message_date >= now - arg.days
        /\ arg.category \in {"web", "bots"} => r.category = arg.category }

C21_QueryWindow ==
    (pc = "reader" /\ last.op = "get_requests") =>
        LET M == C21_Matching
            page == ret.requests
            left == Cardinality(M) - arg.offset
        IN  /\ ret.total = Cardinality(M)
            /\ Len(page) <= arg.limit
            /\ Len(page) = IF left <= 0 THEN 0 ELSE Min(arg.limit, left)
            /\ \A k \in DOMAIN page : page[k] \in M
            /\ \A j, k \in DOMAIN page : j < k =>
                  (page[j] # page[k] /\ page[j].message_date >= page[k].message_date)
            /\ \A k \in DOMAIN page :
                  /\ Cardinality({ r \in M : r.message_date > page[k].message_date })
                        <= arg.offset + k - 1
                  /\ Cardinality({ r \in M : r.message_date >= page[k].message_date })
                        >= arg.offset + k

\* the second page of one row of a table of three rows, the rows of the category
\* web being two
C21_Witness ==
    /\ pc = "reader" /\ last.op = "get_requests"
    /\ Cardinality(store) = 3
    /\ arg.category = "web" /\ arg.offset = 1 /\ arg.limit = 1 /\ arg.days = 7
    /\ ret.total = 2 /\ Len(ret.requests) = 1
    /\ ret.requests[1].source_message_id = 2

\* C22: get_stats_by_category returns a mapping whose keys are the categories
\* that have a row and whose values are the numbers of rows of the category; a
\* category without rows is not a key.
C22_StatsPerCategory ==
    (pc = "reader" /\ last.op = "get_stats") =>
        /\ DOMAIN ret = { r.category : r \in store }
        /\ \A c \in DOMAIN ret :
              ret[c] = Cardinality({ r \in store : r.category = c }) /\ ret[c] >= 1
        /\ \A c \in Slugs : (\A r \in store : r.category # c) => c \notin DOMAIN ret

\* two rows of web and none of bots: web is counted 2 and bots is no key
C22_Witness ==
    /\ pc = "reader" /\ last.op = "get_stats"
    /\ Cardinality(store) = 2
    /\ DOMAIN ret = {"web"} /\ ret["web"] = 2

\* C23: no step deletes a category that exists, and right after a sync the
\* active categories are exactly the categories of the configuration of that
\* sync: a category the configuration does not name is inactive and still there,
\* and a category that is named again is active again.
C23_SyncKeepsCategories ==
    /\ [][\A slug \in Slugs : cats[slug].exists => cats'[slug].exists]_vars
    /\ [] ((pc = "syncer" /\ last.op = "sync") =>
              /\ { slug \in Slugs : cats[slug].exists /\ cats[slug].is_active }
                    = ConfigSlugs(config)
              /\ \A slug \in ConfigSlugs(config) : cats[slug].exists
              /\ \A slug \in Slugs : cats[slug].is_active => cats[slug].exists)

\* the orchestrator deletes no category either, and after its sync the active
\* categories are those of the loaded configuration
C23_RunKeepsCategories ==
    /\ [][\A slug \in Slugs : cats[slug].exists => cats'[slug].exists]_vars
    /\ [] ((pc = "client" /\ last.op = "sync") =>
              { slug \in Slugs : cats[slug].is_active } = ConfigSlugs(config))

\* a sync made the category bots, inactive before it, active again, and made
\* web, which it does not name, inactive
C23_Witness ==
    /\ pc = "syncer" /\ last.op = "sync" /\ last.n = 1 /\ last.m = 1
    /\ cats["bots"].is_active
    /\ cats["web"].exists /\ ~cats["web"].is_active
    /\ ConfigSlugs(config) = {"bots"}

\* C24 (as claimed): for one table, the same contents of the sources and the same
\* extraction, the message_text_hash values in the table after a run are the
\* same whatever the order of the categories and of their chats.
C24_Hashes(rows) == { r.message_text_hash : r \in rows }

C24_HashesOrderFree ==
    (pc = "orders" /\ last.op = "runs") =>
        C24_Hashes(ret.first) = C24_Hashes(ret.second)

\* no two messages a category gets from its chats have the same message_id
C24_IdsDistinct ==
    \A c \in DOMAIN config :
        LET messages == parse_category(config[c].slug, config[c].chats, 1, arg.contents)
        IN  \A j, k \in DOMAIN messages :
               messages[j].message_id = messages[k].message_id => j = k

\* when the message ids of each category are pairwise different, the hashes in
\* the table after the saves of the run, before its cleanup, do not depend on
\* the order
C24_DistinctIdsOrderFree ==
    (pc = "orders" /\ last.op = "runs" /\ C24_IdsDistinct) =>
        C24_Hashes(ret.first_saved) = C24_Hashes(ret.second_saved)

\* two orders of two chats with different ids gave the same two hashes
C24_SameHashesReached ==
    /\ pc = "orders" /\ last.op = "runs" /\ C24_IdsDistinct
    /\ arg.other # config
    /\ Cardinality(C24_Hashes(ret.first)) = 2
    /\ ret.first # store

\* the ids are pairwise different and the hashes after the two runs differ: the
\* row of a text two messages share has the date of the message walked first,
\* and the cleanup deletes it in one order only
C24_EvictedInOneOrder ==
    /\ pc = "orders" /\ last.op = "runs" /\ C24_IdsDistinct
    /\ C24_Hashes(ret.first) # C24_Hashes(ret.second)

\* C25: in the walk of a category the chats are read one at a time in the order
\* of the list; there is no delay before the first chat and one delay before
\* each later chat, also when the chat before it failed, so a walk over k chats
\* has k - 1 delays and the first chat of a later category is read without one.
C25_DelaysBetweenSources ==
    /\ [][(pc = "parse" /\ chat_i' = chat_i + 1) =>
              /\ last'.op = "read" /\ last'.cat = ci /\ last'.n = chat_i
              /\ chat_i = 1 => (delays = 0 /\ delays' = 0)
              /\ chat_i > 1 => (last.op = "read" /\ last.n = chat_i - 1
                                 /\ delays' = delays + 1)]_vars
    /\ [] (pc = "parse" =>
              /\ delays = IF chat_i <= 2 THEN 0 ELSE chat_i - 2
              /\ chat_i > Len(config[ci].chats) => delays = Len(config[ci].chats) - 1)

\* the first chat of the second category was read without a delay, after a
\* first category of two chats
C25_Witness ==
    /\ pc = "parse" /\ ci = 2 /\ last.op = "read" /\ last.n = 1 /\ delays = 0
    /\ Len(config[1].chats) = 2

\* the second chat of a category was read, with one delay, after a first chat
\* that added no message
C25_DelayAfterFailedSource ==
    /\ pc = "parse" /\ last.op = "read" /\ last.n = 2 /\ delays = 1
    /\ Len(all_messages) = last.m /\ last.m > 0
    /\ total_messages = 0 /\ ci = 1

\* C26: parse_chat takes the messages in the order the chat delivers them and
\* stops at the first one dated before now - days: it returns the messages
\* delivered before that one that pass the filter, in order, none of them older
\* than the cutoff, and no message delivered after it, however new.
C26_Stop ==
    LET old == { k \in DOMAIN arg.h : now - arg.h[k].age < now - LookbackDays }
    IN  IF old = {} THEN Len(arg.h) + 1
        ELSE CHOOSE k \in old : \A j \in old : k <= j

C26_StopsAtFirstOld ==
    (pc = "read" /\ last.op = "read") =>
        LET kept == SelectSeq(SubSeq(arg.h, 1, C26_Stop - 1),
                              LAMBDA msg : TextLen(msg.text) >= 50 /\ ~msg.bot)
        IN  /\ last.tag = "raised" <=> arg.fail_at <= C26_Stop
            /\ last.tag = "raised" => ret = <<>>
            /\ last.tag = "ok" =>
                  /\ Len(ret) = Len(kept)
                  /\ \A k \in DOMAIN ret :
                        /\ ret[k].message_id = kept[k].id
                        /\ ret[k].text = kept[k].text
                        /\ ret[k].message_date = now - kept[k].age
                        /\ ret[k].chat_id = arg.chat_id
            /\ \A k \in DOMAIN ret : ret[k].message_date >= now - LookbackDays

\* a message at the cutoff is returned; the new message delivered after an old
\* one is not
C26_Witness ==
    /\ pc = "read" /\ last.op = "read" /\ last.tag = "ok"
    /\ Len(arg.h) = 3
    /\ arg.h[1] = MsgEdge /\ arg.h[2] = MsgOld /\ arg.h[3] = MsgB
    /\ Len(ret) = 1 /\ ret[1].message_id = MsgEdge.id

\* C27: a row of freelance_requests stays as it was inserted until the cleanup
\* deletes it: no step changes a field of it, a record with the hash of a stored
\* row does not replace the row, every row has is_active true, and a row leaves
\* the table only in a cleanup and only when it is dated before now - ttl.
C27_RowsNeverChange ==
    /\ [][\A r \in store :
             \/ r \in store'
             \/ /\ last'.op = "evict"
                /\ r.message_date < now - MESSAGES_TTL_DAYS
                /\ \A q \in store' : q.id # r.id]_vars
    /\ [] (\A r \in store : r.is_active)
    /\ [] (\A r1, r2 \in store : r1.id = r2.id => r1 = r2)

\* the second run offered a record with the hash of a row of the first run: the
\* save inserted nothing and the row is there
C27_Witness ==
    /\ pc = "update_last" /\ runs = 2
    /\ last.op = "save" /\ last.n >= 1 /\ last.m = 0
    /\ runStore = {}
    /\ \E r \in store : r.message_text_hash \in offered /\ r.is_active

\* C28: requests_extracted of the parse log of a run is the number of rows the
\* saves of the run inserted, not the number of records the extraction
\* returned: a run whose records all have the hashes of stored rows ends success
\* with requests_extracted 0.
C28_CountsInsertedRows ==
    /\ [][(pc = "analyze" /\ pc' = "update_last") =>
              /\ total_requests' = total_requests + Cardinality(store' \ store)
              /\ last'.m = Cardinality(store' \ store)
              /\ last'.m <= last'.n]_vars
    /\ [][(pc \notin {"analyze", "idle", "done"}) =>
              total_requests' = total_requests]_vars
    /\ [] ((pc = "done" /\ log_id # 0 /\ logs[log_id].status = "success") =>
              logs[log_id].requests_extracted = Cardinality({ x.row : x \in runStore }))

\* the second run found messages and gave records to the save, all of hashes the
\* first run had stored: success with requests_extracted 0
C28_Witness ==
    /\ pc = "done" /\ runs = 2 /\ err = NoErr
    /\ logs[2].status = "success"
    /\ logs[2].messages_found > 0 /\ offered # {}
    /\ logs[2].requests_extracted = 0
    /\ logs[1].requests_extracted > 0

\* C29: a record whose source_message_id is the id of no message of its category
\* is given to save_requests with the empty text, so its hash is the hash of the
\* empty text: the table has at most one such row, with empty category and
\* source_chat, and while the row is there a further such record inserts nothing.
C29_EmptyHash == compute_hash("")

C29_Unresolved(rows) == { r \in rows : r.message_text_hash = C29_EmptyHash }

C29_OneUnresolvedRow ==
    /\ [] (/\ Cardinality(C29_Unresolved(store)) <= 1
           /\ \A r \in store :
                 /\ r.message_text_hash = C29_EmptyHash
                       <=> r.source_message_id \in UnresolvedIds
                 /\ r.message_text_hash = C29_EmptyHash =>
                       (r.category = "" /\ r.source_chat = ""))
    /\ [][(pc = "analyze" /\ pc' = "update_last"
            /\ \E k \in DOMAIN all_requests :
                   ~HasMessage(all_messages, all_requests[k].source_message_id)) =>
              /\ C29_EmptyHash \in offered'
              /\ Cardinality(C29_Unresolved(store')) = 1
              /\ C29_Unresolved(store) # {} => C29_Unresolved(store') = C29_Unresolved(store)
              /\ C29_Unresolved(store) = {} =>
                    \A r \in C29_Unresolved(store') :
                       r.category = "" /\ r.source_chat = "" /\ r.message_date = now]_vars

\* the second run gave a record of an unknown id to the save while the row of the
\* first such record was in the table: nothing was inserted for it
C29_Witness ==
    /\ pc = "update_last" /\ runs = 2 /\ last.op = "save"
    /\ C29_EmptyHash \in offered
    /\ Cardinality(C29_Unresolved(store)) = 1
    /\ \A x \in runStore : x.row.message_text_hash # C29_EmptyHash

\* the cutoff of the cleanup of the run: the time of the cleanup less the ttl
C30_Cutoff == now - MESSAGES_TTL_DAYS

\* C30: when a run has ended in success no row of freelance_requests is dated
\* before the cutoff of the cleanup of that run, the rows the run inserted
\* included: a row the run inserted from a message older than the cutoff is in
\* the table until the cleanup of the same run and gone after it, so a later run
\* that is given a record of that message inside the 7 days it reads back finds
\* no row with its hash and inserts it again.
C30_NothingOlderAfterRun ==
    /\ [] ((\/ pc = "finish"
            \/ /\ pc = "done" /\ log_id # 0
               /\ logs[log_id].status = "success"
               /\ logs[log_id].finished_at = now) =>
              \A r \in store : r.message_date >= C30_Cutoff)
    /\ [][(pc = "cleanup" /\ pc' = "finish") =>
              \A x \in runStore :
                 x.row.message_date < C30_Cutoff => (x.row \in store /\ x.row \notin store')]_vars
    /\ [][(pc = "analyze" /\ pc' = "update_last" /\ last'.tag = "ok") =>
              LET requests == AddMessageText(all_requests, all_messages)
              IN  \A k \in DOMAIN requests :
                     LET h == compute_hash(MessageTextOf(requests[k]))
                     IN  (\A r \in store : r.message_text_hash # h) =>
                            \E r \in store' \ store :
                               r.message_text_hash = h /\ r.id >= nextId]_vars
    /\ [] ((pc \notin {"idle", "done"}) =>
              \A x \in runStore : x.row.message_date >= now - LookbackDays
                                    /\ x.row.message_date <= now)

\* with a ttl below the 7 days read back, the first run inserted one row and
\* its cleanup deleted it; the second run inserted a row of text a50 dated
\* inside the 7 days and before the cutoff, and its cleanup deleted that one too
C30_Witness ==
    /\ pc = "done" /\ runs = 2 /\ MESSAGES_TTL_DAYS < LookbackDays
    /\ logs[1].status = "success" /\ logs[1].requests_extracted = 1
    /\ logs[2].status = "success" /\ logs[2].requests_extracted = 1
    /\ logs[2].finished_at = now
    /\ nextId = 3 /\ store = {}
    /\ \E x \in runStore :
          /\ runStore = {x}
          /\ x.row.id = 2
          /\ x.row.message_text_hash = compute_hash("a50")
          /\ x.row.message_date < C30_Cutoff
          /\ x.row.message_date >= now - LookbackDays
====
